---------------------------- MODULE Spec2Model ----------------------------
(***************************************************************************)
(* Order executor, risk sizer and real-time monitor of AI Trader.          *)
(*                                                                         *)
(* Prices and distances are whole numbers of points (symbol_info.point is  *)
(* the unit), so round(level, digits) leaves every level unchanged.        *)
(* Volumes are whole numbers of 0.001 lot.  A message is a record          *)
(* [tag, code]: the tag names the f-string of the source, code is the      *)
(* broker return code (or its description) the string shows, "" when it    *)
(* shows none.                                                             *)
(***************************************************************************)
EXTENDS Integers, Sequences, FiniteSets, TLC

(***************************************************************************)
(* Program constants                                                       *)
(***************************************************************************)
max_retries == 3
retry_delay == 1
MinStopPoints == 10
MaxSpreadPoints == 50

(***************************************************************************)
(* Bounds of the model                                                     *)
(***************************************************************************)
MaxStopsLevel == 15
MaxPips == 20
WideSpread == 60
MaxBalance == 3

Threads == {"caller", "worker"}

None == "None"
Raise == "Raise"

\* what one call of a broker / account collaborator can give back
Reads == {"ok", "none", "raise"}

\* broker return codes (the names of the MetaTrader5 constants)
RetDone == "TRADE_RETCODE_DONE"
Accepted == {"TRADE_RETCODE_DONE", "TRADE_RETCODE_DONE_PARTIAL"}
Retryable == {"TRADE_RETCODE_TIMEOUT", "TRADE_RETCODE_TOO_MANY_REQUESTS"}
Terminal == {"TRADE_RETCODE_NO_MONEY", "TRADE_RETCODE_MARKET_CLOSED"}

\* order_send gives a result with a return code, no result object, or a fault
Replies == Accepted \cup Retryable \cup Terminal \cup {None, Raise}

Msg(tag, code) == [tag |-> tag, code |-> code]
Pair(ok, msg) == [ok |-> ok, msg |-> msg]

Max(a, b) == IF a >= b THEN a ELSE b
Min(a, b) == IF a <= b THEN a ELSE b
Abs(a) == IF a >= 0 THEN a ELSE 0 - a

(***************************************************************************)
(* Trader.calculate_stop_levels                                            *)
(***************************************************************************)
\* lines 57-58: the broker's stops level, never less than 10 points
min_stop_distance(info) ==
    LET min_stop_level == IF info.trade_stops_level > 0
                          THEN info.trade_stops_level
                          ELSE MinStopPoints
    IN  Max(min_stop_level, MinStopPoints)

\* one level: pips points away from price on side sgn (-1 below, +1 above),
\* pushed out to the minimum distance; 0 stands for "no level"
stop_level_as_asked(price, sgn, pips, msd) ==
    IF pips > 0 THEN price + sgn * pips ELSE 0

stop_level(price, sgn, pips, msd) ==
    IF pips > 0
    THEN LET level == price + sgn * pips
         IN  IF sgn * (level - price) < msd THEN price + sgn * msd ELSE level
    ELSE 0

calculate_stop_levels(read, info, price, order_type, stop_loss_pips, take_profit_pips) ==
    IF read # "ok"
    THEN [sl |-> 0, tp |-> 0]
    ELSE LET msd == min_stop_distance(info)
         IN  IF order_type = "buy"
             THEN [sl |-> stop_level(price, -1, stop_loss_pips, msd),
                   tp |-> stop_level(price, 1, take_profit_pips, msd)]
             ELSE [sl |-> stop_level(price, 1, stop_loss_pips, msd),
                   tp |-> stop_level(price, -1, take_profit_pips, msd)]

(***************************************************************************)
(* Trader.check_market_conditions                                          *)
(***************************************************************************)
\* infoRead, tickRead: what mt5.symbol_info / mt5.symbol_info_tick give back
check_market_conditions(infoRead, info, tickRead, q) ==
    IF infoRead = "raise" THEN Pair(FALSE, Msg("market_check_exception", ""))
    ELSE IF infoRead = "none" THEN Pair(FALSE, Msg("symbol_not_found", ""))
    ELSE IF ~info.trade_mode_full THEN Pair(FALSE, Msg("trade_restricted", ""))
    ELSE IF ~info.visible THEN Pair(FALSE, Msg("not_in_market_watch", ""))
    ELSE IF tickRead = "raise" THEN Pair(FALSE, Msg("market_check_exception", ""))
    ELSE IF tickRead = "ok" /\ q.spread > MaxSpreadPoints
         THEN Pair(FALSE, Msg("spread_too_high", ""))
    ELSE Pair(TRUE, Msg("market_ready", ""))

(***************************************************************************)
(* Trader._send_order_impl, up to the call of mt5.order_send               *)
(***************************************************************************)
NoRequest == [type |-> "none", price |-> 0, sl |-> 0, tp |-> 0, volume |-> 0,
              position |-> 0]
NoResult == Pair(FALSE, Msg("none", ""))

Return(res) == [kind |-> "return", result |-> res, request |-> NoRequest]
Raised == [kind |-> "raise", result |-> NoResult, request |-> NoRequest]
Submit(req) == [kind |-> "submit", result |-> NoResult, request |-> req]

\* the environment of one attempt: the connection check and the five reads
SendEnvs == [conn : BOOLEAN, info1 : Reads, tickA : Reads, tickB : Reads,
             info2 : Reads, info3 : Reads]

\* lines 227-280, the body of the try block
send_order_body(e, info, q, order_type, volume, stop_loss_pips, take_profit_pips) ==
    IF ~e.conn THEN Return(Pair(FALSE, Msg("no_connection", "")))
    ELSE LET market == check_market_conditions(e.info1, info, e.tickA, q)
         IN
         IF ~market.ok THEN Return(market)
         ELSE IF e.tickB = "raise" THEN Raised
         ELSE IF e.tickB = "none" THEN Return(Pair(FALSE, Msg("no_price", "")))
         ELSE IF e.info2 = "raise" THEN Raised
         ELSE IF e.info2 = "none" THEN Return(Pair(FALSE, Msg("no_symbol_info", "")))
         ELSE IF order_type \notin {"buy", "sell"}
              THEN Return(Pair(FALSE, Msg("unknown_order_type", "")))
         ELSE LET price == IF order_type = "buy" THEN q.bid + q.spread ELSE q.bid
                  lv == calculate_stop_levels(e.info3, info, price, order_type,
                                              stop_loss_pips, take_profit_pips)
              IN
              IF lv.sl > 0 /\ Abs(lv.sl - price) < 1
              THEN Return(Pair(FALSE, Msg("stop_loss_too_close", "")))
              ELSE IF lv.tp > 0 /\ Abs(lv.tp - price) < 1
              THEN Return(Pair(FALSE, Msg("take_profit_too_close", "")))
              ELSE Submit([type |-> order_type, price |-> price, sl |-> lv.sl,
                           tp |-> lv.tp, volume |-> volume, position |-> 0])

\* lines 299-302: the except clause turns a fault into a failure pair
send_order_prepare(e, info, q, order_type, volume, stop_loss_pips, take_profit_pips) ==
    LET b == send_order_body(e, info, q, order_type, volume, stop_loss_pips,
                             take_profit_pips)
    IN  IF b.kind = "raise"
        THEN Return(Pair(FALSE, Msg("order_exception", "")))
        ELSE b

\* lines 283-302: the broker's reply to mt5.order_send becomes the result
send_order_result(reply) ==
    IF reply = Raise \/ reply = None
    THEN Return(Pair(FALSE, Msg("order_exception", "")))
    ELSE IF reply # RetDone
    THEN Return(Pair(FALSE, Msg("order_error", reply)))
    ELSE Return(Pair(TRUE, Msg("order_done", "")))

(***************************************************************************)
(* Trader._close_position_impl                                             *)
(***************************************************************************)
CloseEnvs == [pos : Reads, tick : Reads]

\* lines 390-419
close_position_body(e, open, q, ticket) ==
    IF e.pos = "raise" THEN Raised
    ELSE IF e.pos = "none" \/ ticket \notin open
    THEN Return(Pair(FALSE, Msg("position_not_found", "")))
    ELSE IF e.tick # "ok" THEN Raised
    ELSE LET \* the type of the position the ticket names at the broker
             position_type == IF ticket = 1 THEN "buy" ELSE "sell"
             closing == position_type = "buy"
         IN  Submit([type |-> IF closing THEN "sell" ELSE "buy",
                     price |-> IF closing THEN q.bid ELSE q.bid + q.spread,
                     sl |-> 0, tp |-> 0, volume |-> 1, position |-> ticket])

\* lines 429-432
close_position_prepare(e, open, q, ticket) ==
    LET b == close_position_body(e, open, q, ticket)
    IN  IF b.kind = "raise"
        THEN Return(Pair(FALSE, Msg("close_exception", "")))
        ELSE b

\* lines 421-432
close_position_result(reply) ==
    IF reply = Raise \/ reply = None
    THEN Return(Pair(FALSE, Msg("close_exception", "")))
    ELSE IF reply # RetDone
    THEN Return(Pair(FALSE, Msg("close_error", reply)))
    ELSE Return(Pair(TRUE, Msg("position_closed", "")))

(***************************************************************************)
(* Trader._retry_operation: what the loop does with one attempt's result   *)
(***************************************************************************)
\* attempt is the loop variable (0-based), p what the operation came to (a
\* returned pair, or a fault raised into the loop's except clause); "sleep"
\* goes on to the next attempt after retry_delay, "return" ends the call with
\* result, "raise" would let the fault leave the call
retry_operation_one_short(attempt, p) ==
    IF p.kind = "return" /\ p.result.ok
    THEN [do |-> "return", result |-> p.result]
    ELSE IF attempt < max_retries - 2
    THEN [do |-> "sleep", result |-> p.result]
    ELSE [do |-> "return", result |-> Pair(FALSE, Msg("all_attempts_failed", ""))]

retry_operation(attempt, p) ==
    IF p.kind = "return" /\ p.result.ok
    THEN [do |-> "return", result |-> p.result]
    ELSE IF attempt < max_retries - 1
    THEN [do |-> "sleep", result |-> p.result]
    ELSE [do |-> "return", result |-> Pair(FALSE, Msg("all_attempts_failed", ""))]

(***************************************************************************)
(* Trader.calculate_position_size                                          *)
(***************************************************************************)
\* Python's round(n / d) for n >= 0, d > 0: to the nearest integer, a tie to
\* the even one
RoundHalfEven(n, d) ==
    LET q == n \div d
        r == n % d
    IN  IF 2 * r < d THEN q
        ELSE IF 2 * r > d THEN q + 1
        ELSE IF q % 2 = 0 THEN q ELSE q + 1

NoVolume == [kind |-> "None", volume |-> 0]
VolumeFault == [kind |-> "exception", volume |-> 0]

\* acct, info: what mt5.account_info / mt5.symbol_info give back; fault: the
\* arithmetic raises (a field of the wrong type)
SizeEnvs == [acct : Reads, info : Reads, fault : BOOLEAN]

\* lines 151-195, the body of the try block.
\* raw_lot_size (lines 162-180) is the lot size as a fraction num / den of
\* 0.001 lot: balance in account currency, risk_bp in 0.01 percent, tick
\* values whole; risk_amount is balance * risk_bp / 10000 and one lot is
\* 1000 units, so the common factor 1000 is cancelled.
position_size_body(e, balance, lims, risk_bp, stop_loss_pips) ==
    LET raw_lot_size ==
            IF stop_loss_pips > 0
            THEN IF lims.trade_tick_value > 0 /\ lims.trade_tick_size > 0
                 THEN [num |-> balance * risk_bp,
                       den |-> 10 * stop_loss_pips * lims.trade_tick_value]
                 ELSE [num |-> balance * risk_bp,
                       den |-> 10 * stop_loss_pips * 10]
            ELSE [num |-> balance * risk_bp, den |-> 10 * 1000]
        \* lines 188-189: round to the volume step
        round_to_step(lot, step_lot) ==
            IF step_lot > 0
            THEN [num |-> RoundHalfEven(lot.num, lot.den * step_lot) * step_lot,
                  den |-> 1]
            ELSE lot
        \* line 191: max(min_lot, min(lot_size, max_lot))
        clamp_lot(lot, min_lot, max_lot) ==
            LET upper == IF lot.num <= max_lot * lot.den THEN lot
                         ELSE [num |-> max_lot, den |-> 1]
            IN  IF min_lot * upper.den >= upper.num THEN [num |-> min_lot, den |-> 1]
                ELSE upper
        \* line 192: round(lot_size, 2), in 0.001 lot
        round_2(lot) == RoundHalfEven(lot.num, lot.den * 10) * 10
    IN  IF e.acct = "raise" THEN VolumeFault
        ELSE IF e.acct = "none" THEN NoVolume
        ELSE IF e.info = "raise" THEN VolumeFault
        ELSE IF e.info = "none" THEN NoVolume
        ELSE IF e.fault THEN VolumeFault
        ELSE [kind |-> "volume",
              volume |-> round_2(clamp_lot(
                             round_to_step(raw_lot_size, lims.volume_step),
                             lims.volume_min, lims.volume_max))]

\* the body without the except clause: a fault leaves the operation
position_size_unguarded(e, balance, lims, risk_bp, stop_loss_pips) ==
    position_size_body(e, balance, lims, risk_bp, stop_loss_pips)

\* lines 197-199: the except clause returns None
calculate_position_size(e, balance, lims, risk_bp, stop_loss_pips) ==
    LET b == position_size_body(e, balance, lims, risk_bp, stop_loss_pips)
    IN  IF b.kind = "exception" THEN NoVolume ELSE b

(***************************************************************************)
(* State                                                                   *)
(***************************************************************************)
VARIABLES
    sym,        \* the instrument as the broker describes it (mt5.symbol_info)
    quote,      \* the current market quote (mt5.symbol_info_tick)
    positions,  \* tickets of the positions open at the broker
    pc,         \* per thread: where it stands
    call,       \* per thread: the public operation in progress and its arguments
    attempt,    \* per thread: the loop variable of _retry_operation
    clock,      \* per thread: seconds slept by _retry_operation in this call
    last,       \* per thread: the latest attempt of the operation
    hist,       \* per thread: what the attempts of this call did so far
    outcome,    \* per thread: what the latest public operation returned
    queue,      \* per thread: close_all_positions, the positions still to close
    results,    \* per thread: close_all_positions, the messages collected
    trade,      \* per thread: the latest AITrader._execute_trade
    settings,   \* the attributes of the Settings object the trade paths read
    monitor,    \* RealTimeMonitor: its fields and the position of its worker
    strategy    \* the latest generate_signal call: strategy, frame and decision

envVars == <<sym, quote, positions>>
thrVars == <<pc, call, attempt, clock, last, hist, outcome, queue, results>>
appVars == <<trade, settings, monitor, strategy>>
vars == <<sym, quote, positions, pc, call, attempt, clock, last, hist, outcome,
          queue, results, trade, settings, monitor, strategy>>

Tickets == {1, 2}
Quotes == {[bid |-> 1000, spread |-> 2], [bid |-> 1003, spread |-> 2],
           [bid |-> 1000, spread |-> WideSpread]}
SymbolInfos == {i \in [trade_mode_full : BOOLEAN, visible : BOOLEAN,
                       trade_stops_level : {0, 5, MaxStopsLevel}] :
                   i.trade_mode_full \/ i.visible}

NoCall == [op |-> "none", order_type |-> "none", volume |-> 0,
           stop_loss_pips |-> 0, take_profit_pips |-> 0, ticket |-> 0]
\* q: the market quote when the attempt ran; reply: what mt5.order_send gave
NoAttempt == [q |-> [bid |-> 0, spread |-> 0], submitted |-> FALSE,
              request |-> NoRequest, reply |-> "", result |-> NoResult]
\* allRetryable: every attempt so far was submitted and answered with a
\* retryable return code; terminal / accepted: some attempt so far was
\* answered with a terminal / an accepting return code; rejected: the return
\* codes that ended the retry loops of this call
NoHist == [allRetryable |-> TRUE, terminal |-> FALSE, accepted |-> FALSE,
           rejected |-> {}]
\* kind: "pair" for a returned (success, message), "volume" / "None" for what
\* calculate_position_size returned, "exception" for a fault that left the
\* operation; failed: a collaborator of calculate_position_size gave nothing
\* or faulted
NoOutcome == [op |-> "none", kind |-> "none", ok |-> FALSE, msg |-> Msg("none", ""),
              parts |-> <<>>, volume |-> 0,
              lims |-> [volume_min |-> 0, volume_max |-> 0, volume_step |-> 0,
                        trade_tick_value |-> 0, trade_tick_size |-> 0],
              failed |-> FALSE]

PairOutcome(op, res, parts) ==
    [NoOutcome EXCEPT !.op = op, !.kind = "pair", !.ok = res.ok, !.msg = res.msg,
                      !.parts = parts]
SizeOutcome(v, lims, failed) ==
    [NoOutcome EXCEPT !.op = "calculate_position_size", !.kind = v.kind,
                      !.volume = v.volume, !.lims = lims, !.failed = failed]

Rejections == Retryable \cup Terminal

ThreadsIdle ==
    /\ pc = [t \in Threads |-> "idle"]
    /\ call = [t \in Threads |-> NoCall]
    /\ attempt = [t \in Threads |-> 0]
    /\ clock = [t \in Threads |-> 0]
    /\ last = [t \in Threads |-> NoAttempt]
    /\ hist = [t \in Threads |-> NoHist]
    /\ outcome = [t \in Threads |-> NoOutcome]
    /\ queue = [t \in Threads |-> <<>>]
    /\ results = [t \in Threads |-> <<>>]

\* no _execute_trade yet; sized is what calculate_position_size gave it,
\* failed whether a collaborator of the sizer gave nothing or faulted
NoTrade == [path |-> "none", order_type |-> "none", signal_strength |-> 0,
            sized |-> [kind |-> "none", volume |-> 0], failed |-> FALSE]

\* Settings defines no AUTO_TRADING_ENABLED: getattr(..., False) reads False
DefaultSettings == [AUTO_TRADING_ENABLED |-> FALSE]

\* data: the market_data of _get_real_time_data before any symbol is polled
\* (lines 137-141); symbols holds one <<base_symbol, price_change>> entry per
\* key

\* RealTimeMonitor.__init__ (lines 20-28); symbol_mapping is the set of the
\* base symbols that have a mapping, data the market_data of the last tick,
\* fetch what the data fetcher answered in it and calls the calls it made,
\* orphans the positions of the workers self.thread no longer names; at is
\* where the worker stands, i the index of its for loop over the subscribers,
\* snapshot the number of the
\* market_data of this tick, delivered the <<callback, snapshot>> calls of this
\* tick, caught the faults the loop has caught, ticks the ticks completed
NoMonitor == [running |-> FALSE, thread |-> "none", subscribers |-> <<>>,
              at |-> "none", i |-> 0, snapshot |-> 0, delivered |-> <<>>,
              caught |-> 0, ticks |-> 0,
              symbols |-> <<>>, symbol_mapping |-> {},
              data |-> [symbols |-> <<>>, market_state |-> "UNKNOWN",
                        successful_symbols |-> 0, total_symbols |-> 0],
              fetch |-> <<>>, calls |-> {}, orphans |-> <<>>]

\* a decision of generate_signal: the 'signal' and 'strength' of the dict
Decision(signal, strength) == [signal |-> signal, strength |-> strength]

\* no strategy has been asked for a signal
NoStrategy == [name |-> "none", frame |-> [bars |-> 0], decision |-> Decision("HOLD", 0)]

AppIdle ==
    /\ trade = [t \in Threads |-> NoTrade]
    /\ settings = DefaultSettings
    /\ monitor = NoMonitor
    /\ strategy = NoStrategy

Init ==
    /\ sym \in SymbolInfos
    /\ quote \in Quotes
    /\ positions = {}
    /\ ThreadsIdle
    /\ AppIdle

(***************************************************************************)
(* The retry loop around one operation                                     *)
(***************************************************************************)
\* Trader._retry_operation is entered: attempt 0 is next
StartRetry(t, c) ==
    /\ call' = [call EXCEPT ![t] = c]
    /\ pc' = [pc EXCEPT ![t] = "attempt"]
    /\ attempt' = [attempt EXCEPT ![t] = 0]
    /\ clock' = [clock EXCEPT ![t] = 0]
    /\ last' = [last EXCEPT ![t] = NoAttempt]

\* the attempt now made, before the broker is asked
ThisAttempt(t, p) ==
    [q |-> quote, submitted |-> p.kind = "submit", request |-> p.request,
     reply |-> "", result |-> p.result]

\* an attempt ended with result res: _retry_operation returns or sleeps
\* (lines 22-31); a returned close inside close_all_positions is collected
\* (lines 443-445)
EndAttempt(t, p, lst) ==
    LET r == retry_operation(attempt[t], p)
        res == p.result
        h == hist[t]
        rej == IF r.do = "return" /\ lst.reply \in Rejections
               THEN h.rejected \cup {lst.reply} ELSE h.rejected
        hst == [h EXCEPT !.rejected = rej,
                         !.allRetryable = @ /\ lst.reply \in Retryable,
                         !.terminal = @ \/ lst.reply \in Terminal,
                         !.accepted = @ \/ lst.reply \in Accepted]
    IN  /\ last' = [last EXCEPT ![t] = [lst EXCEPT !.result = res]]
        /\ hist' = [hist EXCEPT ![t] = hst]
        /\ IF r.do = "sleep"
           THEN /\ pc' = [pc EXCEPT ![t] = "sleep"]
                /\ UNCHANGED <<outcome, results>>
           ELSE IF r.do = "raise"
           THEN /\ pc' = [pc EXCEPT ![t] = "idle"]
                /\ outcome' = [outcome EXCEPT ![t] =
                                 [NoOutcome EXCEPT !.op = call[t].op,
                                                   !.kind = "exception"]]
                /\ UNCHANGED results
           ELSE IF call[t].op = "close_all_positions"
           THEN /\ pc' = [pc EXCEPT ![t] = "pause"]
                /\ results' = [results EXCEPT ![t] = Append(@, r.result.msg)]
                /\ UNCHANGED outcome
           ELSE /\ pc' = [pc EXCEPT ![t] = "idle"]
                /\ outcome' = [outcome EXCEPT ![t] =
                                   PairOutcome(call[t].op, r.result, <<>>)]
                /\ UNCHANGED results
        /\ UNCHANGED <<call, attempt, clock, queue>>

\* one run of the operation up to mt5.order_send; p is what the operation's
\* code before order_send came to
Prepared(t, p) ==
    IF p.kind = "submit"
    THEN /\ pc' = [pc EXCEPT ![t] = "inflight"]
         /\ last' = [last EXCEPT ![t] = ThisAttempt(t, p)]
         /\ UNCHANGED <<call, attempt, clock, hist, outcome, queue, results>>
    ELSE EndAttempt(t, p, ThisAttempt(t, p))

(***************************************************************************)
(* The public operations of Trader                                         *)
(***************************************************************************)
\* Trader.send_order is called (lines 201-220)
CallSendOrder(t, types, pips) ==
    /\ UNCHANGED appVars
    /\ pc[t] = "idle"
    /\ \E ot \in types, pp \in pips :
          StartRetry(t, [op |-> "send_order", order_type |-> ot, volume |-> 10,
                         stop_loss_pips |-> pp[1], take_profit_pips |-> pp[2],
                         ticket |-> 0])
    /\ hist' = [hist EXCEPT ![t] = NoHist]
    /\ outcome' = [outcome EXCEPT ![t] = NoOutcome]
    /\ queue' = [queue EXCEPT ![t] = <<>>]
    /\ results' = [results EXCEPT ![t] = <<>>]
    /\ UNCHANGED envVars

\* Trader.close_position is called (lines 383-385)
CallClosePosition(t) ==
    /\ UNCHANGED appVars
    /\ pc[t] = "idle"
    /\ \E ticket \in Tickets :
          StartRetry(t, [NoCall EXCEPT !.op = "close_position", !.ticket = ticket])
    /\ hist' = [hist EXCEPT ![t] = NoHist]
    /\ outcome' = [outcome EXCEPT ![t] = NoOutcome]
    /\ queue' = [queue EXCEPT ![t] = <<>>]
    /\ results' = [results EXCEPT ![t] = <<>>]
    /\ UNCHANGED envVars

\* Trader.get_open_positions (lines 343-381): the open positions in the
\* order mt5.positions_get lists them, an empty list when the broker gives
\* nothing or faults
get_open_positions(read, open) ==
    IF read # "ok" THEN <<>>
    ELSE IF open = {} THEN <<>>
    ELSE IF open = {1} THEN <<1>>
    ELSE IF open = {2} THEN <<2>>
    ELSE <<1, 2>>

\* Trader.close_all_positions is called (lines 434-443)
CallCloseAll(t) ==
    /\ UNCHANGED appVars
    /\ pc[t] = "idle"
    /\ \E read \in Reads :
          LET list == get_open_positions(read, positions)
          IN  IF list = <<>>
              THEN /\ outcome' = [outcome EXCEPT ![t] =
                           PairOutcome("close_all_positions",
                                       Pair(TRUE, Msg("no_open_positions", "")), <<>>)]
                   /\ call' = [call EXCEPT ![t] =
                           [NoCall EXCEPT !.op = "close_all_positions"]]
                   /\ queue' = [queue EXCEPT ![t] = <<>>]
                   /\ last' = [last EXCEPT ![t] = NoAttempt]
                   /\ UNCHANGED <<pc, attempt, clock>>
              ELSE /\ StartRetry(t, [NoCall EXCEPT !.op = "close_all_positions",
                                                   !.ticket = Head(list)])
                   /\ queue' = [queue EXCEPT ![t] = list]
                   /\ outcome' = [outcome EXCEPT ![t] = NoOutcome]
    /\ hist' = [hist EXCEPT ![t] = NoHist]
    /\ results' = [results EXCEPT ![t] = <<>>]
    /\ UNCHANGED envVars

\* the wait after one position of close_all_positions (line 445), then the
\* next position or the return (line 447)
Pause(t) ==
    /\ UNCHANGED appVars
    /\ pc[t] = "pause"
    /\ LET rest == Tail(queue[t])
       IN  /\ queue' = [queue EXCEPT ![t] = rest]
           /\ IF rest = <<>>
              THEN /\ pc' = [pc EXCEPT ![t] = "idle"]
                   /\ outcome' = [outcome EXCEPT ![t] =
                           PairOutcome("close_all_positions",
                                       Pair(TRUE, Msg("joined", "")), results[t])]
                   /\ UNCHANGED <<call, attempt, clock, last, hist>>
              ELSE /\ StartRetry(t, [call[t] EXCEPT !.ticket = Head(rest)])
                   /\ hist' = [hist EXCEPT ![t] =
                           [NoHist EXCEPT !.rejected = hist[t].rejected]]
                   /\ UNCHANGED outcome
    /\ UNCHANGED results
    /\ UNCHANGED envVars

\* one attempt of the operation under _retry_operation (line 21), up to its
\* return or its call of mt5.order_send
Attempt(t, sendEnvs, closeEnvs) ==
    /\ UNCHANGED appVars
    /\ pc[t] = "attempt"
    /\ IF call[t].op = "send_order"
       THEN \E e \in sendEnvs :
               Prepared(t, send_order_prepare(e, sym, quote, call[t].order_type,
                               call[t].volume, call[t].stop_loss_pips,
                               call[t].take_profit_pips))
       ELSE \E e \in closeEnvs :
               Prepared(t, close_position_prepare(e, positions, quote, call[t].ticket))
    /\ UNCHANGED envVars

\* mt5.order_send returns: the broker's reply, one of replies, ends the attempt
OrderReply(t, replies) ==
    /\ UNCHANGED appVars
    /\ pc[t] = "inflight"
    /\ \E reply \in replies :
          LET req == last[t].request
              res == IF call[t].op = "send_order"
                     THEN send_order_result(reply)
                     ELSE close_position_result(reply)
          IN  /\ positions' = IF reply = RetDone /\ req.position # 0
                               THEN positions \ {req.position}
                               ELSE positions
              /\ EndAttempt(t, res, [last[t] EXCEPT !.reply = reply])
    /\ UNCHANGED <<sym, quote>>

\* time.sleep(self.retry_delay) between two attempts (lines 28-29)
Sleep(t) ==
    /\ UNCHANGED appVars
    /\ pc[t] = "sleep"
    /\ pc' = [pc EXCEPT ![t] = "attempt"]
    /\ attempt' = [attempt EXCEPT ![t] = @ + 1]
    /\ clock' = [clock EXCEPT ![t] = @ + retry_delay]
    /\ UNCHANGED <<call, last, hist, outcome, queue, results>>
    /\ UNCHANGED envVars

\* the market moves: the next read of the quote sees another price or spread
MarketMove ==
    /\ UNCHANGED appVars
    /\ quote' \in Quotes \ {quote}
    /\ UNCHANGED <<sym, positions>>
    /\ UNCHANGED thrVars

StandardLimits == [volume_min |-> 10, volume_max |-> 5000, volume_step |-> 10,
                   trade_tick_value |-> 1, trade_tick_size |-> 1]

\* Trader.calculate_position_size is called (lines 147-199)
CallPositionSize(t, balances, limits) ==
    /\ UNCHANGED appVars
    /\ pc[t] = "idle"
    /\ \E e \in SizeEnvs, balance \in balances, lims \in limits,
          risk_bp \in {50, 100}, slp \in {0, 50} :
          outcome' = [outcome EXCEPT ![t] =
              SizeOutcome(calculate_position_size(e, balance, lims, risk_bp, slp),
                          lims, e.acct # "ok" \/ e.info # "ok" \/ e.fault)]
    /\ call' = [call EXCEPT ![t] = [NoCall EXCEPT !.op = "calculate_position_size"]]
    /\ UNCHANGED <<pc, attempt, clock, last, hist, queue, results>>
    /\ UNCHANGED envVars

(***************************************************************************)
(* Spec: send_order under a moving market, for every instrument            *)
(***************************************************************************)
\* the calls pair an order type with <<stop_loss_pips, take_profit_pips>>; the
\* reads of one attempt can fail without a fault being raised
Next ==
    \/ CallSendOrder("caller", {"buy", "sell", "hold"},
                     {<<0, 0>>, <<7, 12>>, <<12, 0>>, <<MaxPips, 7>>})
    \/ Attempt("caller",
               {e \in SendEnvs : e.info1 # "raise" /\ e.tickA # "raise"
                                 /\ e.tickB # "raise" /\ e.info2 = "ok"
                                 /\ e.info3 # "raise"},
               CloseEnvs)
    \/ OrderReply("caller", Replies)
    \/ Sleep("caller")
    \/ MarketMove

Spec == Init /\ [][Next]_vars

(***************************************************************************)
(* Claims about send_order                                                 *)
(***************************************************************************)
\* the send_order call of thread t has returned
SendOrderDone(t) == pc[t] = "idle" /\ outcome[t].op = "send_order"

\* the latest attempt of thread t's send_order passed a request to the broker
Submitted(t) == call[t].op = "send_order" /\ last[t].submitted

\* the distance of a level from the entry price of the request
Distance(req, level) == Abs(level - req.price)

\* the level lies on the side of the entry price where the order type wants it
\* (side -1: stop-loss of a buy, take-profit of a sell)
OnSide(req, level, side) ==
    IF side < 0 THEN level < req.price ELSE level > req.price

\* C1: when every attempt of a send_order call was answered by the broker
\* with a retryable return code, the call made exactly max_retries attempts,
\* slept retry_delay between consecutive attempts, and returned a failure;
\* every attempt priced its request from the quote current at that attempt
\* and placed its levels relative to that price.
C1_RetryExhaustion ==
    \A t \in Threads :
        /\ (SendOrderDone(t) /\ hist[t].allRetryable) =>
               /\ attempt[t] + 1 = max_retries
               /\ clock[t] = (max_retries - 1) * retry_delay
               /\ outcome[t].kind = "pair"
               /\ ~outcome[t].ok
        /\ (call[t].op = "send_order") => clock[t] = attempt[t] * retry_delay
        /\ Submitted(t) =>
               LET req == last[t].request
                   c == call[t]
                   sideSL == IF c.order_type = "buy" THEN -1 ELSE 1
                   q == last[t].q
               IN  /\ req.price = (IF c.order_type = "buy" THEN q.bid + q.spread
                                    ELSE q.bid)
                   /\ req.sl # 0 => OnSide(req, req.sl, sideSL)
                                    /\ Distance(req, req.sl) >= c.stop_loss_pips
                   /\ req.tp # 0 => OnSide(req, req.tp, 0 - sideSL)
                                    /\ Distance(req, req.tp) >= c.take_profit_pips

\* C1 witness: a call whose three attempts were all answered with a retryable
\* return code has returned, the last attempt priced from a moved quote
C1_Witness ==
    /\ SendOrderDone("caller")
    /\ hist["caller"].allRetryable
    /\ attempt["caller"] = max_retries - 1
    /\ last["caller"].request.price = 1003
    /\ last["caller"].request.sl # 0

\* C2: after the broker answered a submission of a send_order call with a
\* terminal return code, that call submits no further order.
C2_NoResubmitAfterTerminal ==
    \A t \in Threads :
        ~(call[t].op = "send_order" /\ pc[t] = "inflight" /\ hist[t].terminal)

\* the broker's minimum stop distance as the instrument states it
BrokerMinimum == sym.trade_stops_level

\* the minimum distance the executor enforces
EffectiveMinimum == Max(BrokerMinimum, MinStopPoints)

\* a level of a submitted request lies at distance m when d < m, else at d
LevelAt(req, level, d, m) ==
    level # 0 => Distance(req, level) = (IF d < m THEN m ELSE d)

\* C3 as stated: every stop-loss / take-profit level of a submitted request
\* lies exactly the broker's minimum m from the entry price when the requested
\* distance d is below m and exactly d away otherwise.
C3_LevelsAtBrokerMinimum ==
    \A t \in Threads :
        Submitted(t) =>
            /\ LevelAt(last[t].request, last[t].request.sl,
                       call[t].stop_loss_pips, BrokerMinimum)
            /\ LevelAt(last[t].request, last[t].request.tp,
                       call[t].take_profit_pips, BrokerMinimum)

\* C3 amended: with M = max(m, 10 points), every level of a submitted request
\* lies exactly M from the entry price when d < M and exactly d away otherwise,
\* on its own side of the price, and so never closer than the broker's m.
C3_LevelsAtEffectiveMinimum ==
    \A t \in Threads :
        Submitted(t) =>
            LET req == last[t].request
                sideSL == IF call[t].order_type = "buy" THEN -1 ELSE 1
            IN  /\ LevelAt(req, req.sl, call[t].stop_loss_pips, EffectiveMinimum)
                /\ LevelAt(req, req.tp, call[t].take_profit_pips, EffectiveMinimum)
                /\ req.sl # 0 => /\ Distance(req, req.sl) >= BrokerMinimum
                                 /\ OnSide(req, req.sl, sideSL)
                /\ req.tp # 0 => /\ Distance(req, req.tp) >= BrokerMinimum
                                 /\ OnSide(req, req.tp, 0 - sideSL)

\* C3 witness: a submitted request whose stop-loss was asked 7 points away
\* under a broker minimum of 5 and whose take-profit was asked 12 points away
C3_Witness ==
    /\ Submitted("caller")
    /\ pc["caller"] = "inflight"
    /\ sym.trade_stops_level = 5
    /\ call["caller"].stop_loss_pips = 7
    /\ Distance(last["caller"].request, last["caller"].request.sl) = MinStopPoints
    /\ Distance(last["caller"].request, last["caller"].request.tp) = 12

\* C8: an attempt made while the spread exceeds the ceiling, or while the
\* instrument is not tradable, or whose non-zero level lies less than one
\* point from the entry price, passes no order to the broker.
C8_NoOrderWhenInvalid ==
    \A t \in Threads :
        Submitted(t) =>
            LET req == last[t].request
            IN  /\ last[t].q.spread <= MaxSpreadPoints
                /\ sym.trade_mode_full
                /\ sym.visible
                /\ req.sl # 0 => Distance(req, req.sl) >= 1
                /\ req.tp # 0 => Distance(req, req.tp) >= 1

(***************************************************************************)
(* SpecTrader: every public operation of Trader, under every fault of its  *)
(* collaborators, on a fixed market with two open positions                *)
(***************************************************************************)
InitTrader ==
    /\ sym \in {i \in SymbolInfos : i.trade_stops_level = 0}
    /\ quote = [bid |-> 1000, spread |-> 2]
    /\ positions = Tickets
    /\ ThreadsIdle
    /\ AppIdle

NextTrader ==
    \/ CallSendOrder("caller", {"buy"}, {<<12, 0>>})
    \/ CallClosePosition("caller")
    \/ CallCloseAll("caller")
    \/ CallPositionSize("caller", {1000}, {StandardLimits})
    \/ Attempt("caller", SendEnvs, CloseEnvs)
    \/ OrderReply("caller", Replies)
    \/ Sleep("caller")
    \/ Pause("caller")

SpecTrader == InitTrader /\ [][NextTrader]_vars

\* the operations that submit to the broker and return one (success, message)
SingleSubmitters == {"send_order", "close_position"}

\* C6: when the broker rejected the last attempt of send_order or
\* close_position, the returned outcome is a failure whose message carries the
\* broker's return code; when the broker rejected the closing of a position
\* inside close_all_positions, the returned outcome is a failure and its
\* message carries that return code.
C6_RejectionSurfaced ==
    \A t \in Threads :
        pc[t] = "idle" =>
            /\ (outcome[t].op \in SingleSubmitters /\ last[t].reply \in Rejections) =>
                   /\ ~outcome[t].ok
                   /\ outcome[t].msg.code = last[t].reply
            /\ (outcome[t].op = "close_all_positions" /\ hist[t].rejected # {}) =>
                   /\ ~outcome[t].ok
                   /\ \A c \in hist[t].rejected :
                          \E i \in 1..Len(outcome[t].parts) : outcome[t].parts[i].code = c

\* C7: no public operation of Trader lets a fault out: send_order,
\* close_position and close_all_positions return a (success, message) pair
\* whatever their collaborators do, and calculate_position_size returns None
\* when a collaborator gives nothing or faults.
C7_NoExceptionEscapes ==
    \A t \in Threads :
        /\ outcome[t].kind # "exception"
        /\ (pc[t] = "idle" /\ outcome[t].op \in SingleSubmitters \cup {"close_all_positions"})
               => outcome[t].kind = "pair"
        /\ (outcome[t].op = "calculate_position_size" /\ outcome[t].failed)
               => outcome[t].kind = "None"

\* C7 witness: a send_order whose last order_send gave no result object has
\* returned (its last attempt came to the failure pair of the except clause),
\* and a calculate_position_size called after it, with a collaborator that
\* gave nothing or faulted, has returned None
C7_Witness ==
    /\ pc["caller"] = "idle"
    /\ last["caller"].reply = None
    /\ last["caller"].request.position = 0
    /\ last["caller"].result = Pair(FALSE, Msg("order_exception", ""))
    /\ outcome["caller"].op = "calculate_position_size"
    /\ outcome["caller"].failed
    /\ outcome["caller"].kind = "None"

(***************************************************************************)
(* SpecSize: calculate_position_size over balances and instrument limits   *)
(***************************************************************************)
NextSize ==
    CallPositionSize("caller", {0} \cup {1000 * k : k \in 1..MaxBalance},
        [volume_min : {10, 30}, volume_max : {50, 5000}, volume_step : {0, 10, 20},
         trade_tick_value : {0, 1, 10}, trade_tick_size : {1}])

SpecSize == InitTrader /\ [][NextSize]_vars

\* C4: under limits with volume_min <= volume_max and volume_step > 0, a
\* volume returned by calculate_position_size lies in [volume_min, volume_max]
\* and is a whole multiple of volume_step.
C4_VolumeInRangeOnStep ==
    \A t \in Threads :
        LET o == outcome[t]
        IN  (/\ o.kind = "volume"
             /\ o.lims.volume_min <= o.lims.volume_max
             /\ o.lims.volume_step > 0) =>
                /\ o.lims.volume_min <= o.volume
                /\ o.volume <= o.lims.volume_max
                /\ o.volume % o.lims.volume_step = 0

(***************************************************************************)
(* AITrader._execute_trade and the two paths that reach it                 *)
(***************************************************************************)
\* Settings: STOPLOSS_PIPS, TAKEPROFIT_PIPS in points, RISK_PERCENT in 0.01 %
STOPLOSS_PIPS == 50
TAKEPROFIT_PIPS == 100
RISK_PERCENT == 100

\* the signal strengths a strategy reports, in percent
Strengths == {20, 50, 80}

\* lines 944-945
adjusted_risk(signal_strength) ==
    IF signal_strength > 0 THEN (RISK_PERCENT * signal_strength) \div 100
    ELSE RISK_PERCENT

\* lines 955-962, with ENABLE_STOPLOSS and ENABLE_TAKEPROFIT at their defaults
trade_pips(signal_strength) ==
    IF signal_strength > 70
    THEN <<STOPLOSS_PIPS, (TAKEPROFIT_PIPS * 15) \div 10>>
    ELSE IF signal_strength < 30
    THEN <<(STOPLOSS_PIPS * 12) \div 10, TAKEPROFIT_PIPS>>
    ELSE <<STOPLOSS_PIPS, TAKEPROFIT_PIPS>>

\* the test skipped: whatever the sizer returned goes on to send_order
volume_unchecked(v) == TRUE

\* line 953, "if volume:": None and 0.0 are both false
volume_usable(v) == v.kind = "volume" /\ v.volume # 0

\* _execute_trade (lines 940-980) up to its call of send_order; the attempts
\* of that send_order are the steps of thread t that follow
execute_trade(t, path, order_type, signal_strength) ==
    /\ pc[t] = "idle"
    /\ \E e \in SizeEnvs :
          LET v == calculate_position_size(e, 1000, StandardLimits,
                                           adjusted_risk(signal_strength), STOPLOSS_PIPS)
              pp == trade_pips(signal_strength)
          IN  /\ trade' = [trade EXCEPT ![t] =
                      [path |-> path, order_type |-> order_type,
                       signal_strength |-> signal_strength, sized |-> v,
                       failed |-> e.acct # "ok" \/ e.info # "ok" \/ e.fault]]
              /\ IF volume_usable(v)
                 THEN /\ StartRetry(t, [op |-> "send_order", order_type |-> order_type,
                                        volume |-> v.volume, stop_loss_pips |-> pp[1],
                                        take_profit_pips |-> pp[2], ticket |-> 0])
                      /\ hist' = [hist EXCEPT ![t] = NoHist]
                 ELSE /\ call' = [call EXCEPT ![t] =
                              [NoCall EXCEPT !.op = "execute_trade"]]
                      /\ UNCHANGED <<pc, attempt, clock, last, hist>>
    /\ outcome' = [outcome EXCEPT ![t] = NoOutcome]
    /\ UNCHANGED <<queue, results, settings, monitor>>
    /\ UNCHANGED envVars

\* _execute_trade reached with a signal that is given
ExecuteTrade(t, path, order_type, signal_strength) ==
    /\ execute_trade(t, path, order_type, signal_strength)
    /\ UNCHANGED strategy

\* run_simple_strategy (lines 895-938) on the caller's thread: a BUY or SELL
\* signal of any strength goes to _execute_trade
RunSimpleStrategy(t) ==
    \E order_type \in {"buy", "sell"}, signal_strength \in Strengths :
        ExecuteTrade(t, "strategy", order_type, signal_strength)

\* _on_market_update (lines 191-205) called by the monitor's worker, and
\* _process_real_time_signals (lines 207-228): with AUTO_TRADING_ENABLED set,
\* a BUY or SELL signal stronger than 70 goes to _execute_trade
OnMarketUpdate(t) ==
    /\ monitor.thread = "alive"
    /\ settings.AUTO_TRADING_ENABLED
    /\ \E order_type \in {"buy", "sell"},
          signal_strength \in {g \in Strengths : g > 70} :
          ExecuteTrade(t, "monitor", order_type, signal_strength)

(***************************************************************************)
(* SpecTrade: the caller's strategy run beside the monitor's worker        *)
(***************************************************************************)
\* start_monitoring has run (realtime_monitor.py 30-41): the worker delivers
\* ticks to the one subscriber AITrader.initialize registered
InitTrade ==
    /\ sym = [trade_mode_full |-> TRUE, visible |-> TRUE, trade_stops_level |-> 0]
    /\ quote = [bid |-> 1000, spread |-> 2]
    /\ positions = {}
    /\ ThreadsIdle
    /\ trade = [t \in Threads |-> NoTrade]
    /\ settings \in [AUTO_TRADING_ENABLED : BOOLEAN]
    /\ monitor = [NoMonitor EXCEPT !.running = TRUE, !.thread = "alive",
                                   !.subscribers = <<"on_market_update">>,
                                   !.at = "notify", !.i = 1, !.snapshot = 1]
    /\ strategy = NoStrategy

\* the collaborators answer every read of an attempt; the broker accepts,
\* times out or refuses for lack of money
NextTrade ==
    \/ RunSimpleStrategy("caller")
    \/ OnMarketUpdate("worker")
    \/ \E t \in Threads :
          Attempt(t, {e \in SendEnvs : e.info1 = "ok" /\ e.tickA = "ok"
                                       /\ e.tickB = "ok" /\ e.info2 = "ok"
                                       /\ e.info3 = "ok"},
                  CloseEnvs)
    \/ \E t \in Threads :
          OrderReply(t, {"TRADE_RETCODE_DONE", "TRADE_RETCODE_TIMEOUT",
                         "TRADE_RETCODE_NO_MONEY"})
    \/ \E t \in Threads : Sleep(t)

SpecTrade == InitTrade /\ [][NextTrade]_vars

C9_SizerFailsClosed ==
    \A t \in Threads :
        /\ trade[t].failed =>
               /\ trade[t].sized.kind = "None"
               /\ call[t].op # "send_order"
               /\ pc[t] = "idle"
        /\ (trade[t].path # "none" /\ call[t].op = "send_order") =>
               /\ trade[t].sized.kind = "volume"
               /\ call[t].volume = trade[t].sized.volume
               /\ call[t].volume > 0

\* C9 witness: a strategy trade whose sizer failed has ended without a
\* send_order, after an earlier trade of the same thread had sent one
C9_Witness ==
    /\ trade["caller"].failed
    /\ trade["caller"].sized.kind = "None"
    /\ call["caller"].op = "execute_trade"
    /\ pc["caller"] = "idle"
    /\ last["caller"].submitted

(***************************************************************************)
(* Double-precision arithmetic of the aggregate (realtime_monitor.py       *)
(* 199-202).  A price change is a whole number of 0.0001 percent, as       *)
(* round(change, 4) leaves it; the double that stands for it, and every    *)
(* sum of such doubles below 2, is a whole number of units of 2^-58,       *)
(* written [hi, lo] for hi * 2^29 + lo with 0 <= lo < 2^29 (hi < 0 for a   *)
(* negative number).                                                       *)
(***************************************************************************)
LimbBase == 536870912
ChangeScale == 10000

Big(hi, lo) == [hi |-> hi, lo |-> lo]
BigZero == Big(0, 0)

BigNeg(a) == IF a.lo = 0 THEN Big(0 - a.hi, 0) ELSE Big(0 - a.hi - 1, LimbBase - a.lo)

BigAdd(a, b) ==
    LET lo == a.lo + b.lo
    IN  IF lo >= LimbBase THEN Big(a.hi + b.hi + 1, lo - LimbBase)
        ELSE Big(a.hi + b.hi, lo)

BigLess(a, b) == a.hi < b.hi \/ (a.hi = b.hi /\ a.lo < b.lo)

RECURSIVE BigTimes(_, _)
BigTimes(a, n) == IF n = 0 THEN BigZero ELSE BigAdd(a, BigTimes(a, n - 1))

\* the spacing of the doubles around m >= 0, in units: 53 significant bits
Ulp(m) ==
    LET RECURSIVE UlpFrom(_, _)
        UlpFrom(top, u) ==
            IF m.hi >= top \/ u = 1 THEN u ELSE UlpFrom(top \div 2, u \div 2)
    IN  UlpFrom(2 * LimbBase, 128)

\* m + r / d (m >= 0, 0 <= r < d) rounded to the nearest double, a tie to
\* the one with the even significand
RoundToDouble(m, r, d) ==
    LET u == Ulp(m)
        low == m.lo % u
        base == m.lo - low
        odd == (base \div u) % 2 = 1
        up == IF u = 1
              THEN 2 * r > d \/ (2 * r = d /\ odd)
              ELSE \/ 2 * low > u
                   \/ (2 * low = u /\ (r > 0 \/ odd))
    IN  IF ~up THEN Big(m.hi, base)
        ELSE IF base + u >= LimbBase THEN Big(m.hi + 1, base + u - LimbBase)
        ELSE Big(m.hi, base + u)

\* the double nearest to v / 10000, 0 <= v < 10000: 58 binary digits of the
\* quotient by long division, then the rounding
\* DoubleOf(v) is the double of the decimal v / 10000, as of a price change
\* of v units of 0.0001 percent
DoubleOf(v) ==
    LET DoubleOfPositive(w) ==
            LET n1 == w * 32768
                n2 == (n1 % ChangeScale) * 16384
                n3 == (n2 % ChangeScale) * 32768
                n4 == (n3 % ChangeScale) * 16384
            IN  RoundToDouble(
                    Big((n1 \div ChangeScale) * 16384 + (n2 \div ChangeScale),
                        (n3 \div ChangeScale) * 16384 + (n4 \div ChangeScale)),
                    n4 % ChangeScale, ChangeScale)
    IN  IF v = 0 THEN BigZero
        ELSE IF v > 0 THEN DoubleOfPositive(v)
        ELSE BigNeg(DoubleOfPositive(0 - v))

\* a + b in double arithmetic
DoubleAdd(a, b) ==
    LET s == BigAdd(a, b)
    IN  IF s.hi < 0 THEN BigNeg(RoundToDouble(BigNeg(s), 0, 1))
        ELSE RoundToDouble(s, 0, 1)

\* sum(price_changes): the changes are added to 0 from left to right
RECURSIVE DoubleSum(_)
DoubleSum(changes) ==
    IF changes = <<>> THEN BigZero
    ELSE DoubleAdd(DoubleSum(SubSeq(changes, 1, Len(changes) - 1)),
                   DoubleOf(changes[Len(changes)]))

\* total / n > c in double arithmetic, for a double c > 0: the quotient rounds
\* to a double above c exactly when it lies above the midpoint of c and the
\* next double, or on it while the significand of c is odd
QuotientAbove(total, n, c) ==
    LET u == Ulp(c)
        mid == BigTimes(BigAdd(BigAdd(c, c), Big(0, u)), n)
        twice == BigAdd(total, total)
    IN  \/ BigLess(mid, twice)
        \/ (mid = twice /\ (c.lo \div u) % 2 = 1)

\* lines 198-205; the thresholds are the doubles of 0.1 and -0.1
StateThreshold == 1000

market_state(price_changes) ==
    IF price_changes = <<>> THEN "UNKNOWN"
    ELSE LET total == DoubleSum(price_changes)
             n == Len(price_changes)
             c == DoubleOf(StateThreshold)
         IN  IF QuotientAbove(total, n, c) THEN "BULLISH"
             ELSE IF QuotientAbove(BigNeg(total), n, c) THEN "BEARISH"
             ELSE "SIDEWAYS"

(***************************************************************************)
(* RealTimeMonitor._get_real_time_data (realtime_monitor.py 135-213)       *)
(***************************************************************************)
MaxSymbols == 3

\* the base symbols start_monitoring may be given, in the order of the list
SymbolNames == <<"EURUSD", "GBPUSD", "USDJPY", "XAUUSD">>

SymbolLists ==
    {SubSeq(SymbolNames, 1, n) : n \in 0..Min(MaxSymbols, Len(SymbolNames))}

\* What the data fetcher answers for one symbol in one tick.  DataFetcher
\* catches its own exceptions and answers None (data.py 228-230, 259-261), so
\* a fetch gives "data" or "empty"; an exception of the loop body comes from
\* reading the quote (line 154 or 162) or the bars (lines 168-186).  A field
\* the loop does not reach holds its first value.
FetchEnv(price, resolve, price2, rates, fault, change) ==
    [price |-> price, resolve |-> resolve, price2 |-> price2, rates |-> rates,
     fault |-> fault, change |-> change]

QuoteRead(e) ==
    IF e.price = "data" THEN TRUE
    ELSE e.resolve = "found" /\ e.price2 = "data"

FetchEnvs ==
    {e \in [price : {"data", "empty"}, resolve : {"found", "empty"},
            price2 : {"data", "empty"}, rates : {"data", "empty"},
            fault : {"none", "quote", "bars"},
            change : {0 - 2000, 0 - 1000, 0, 1000, 2000}] :
        /\ e.price = "data" => e.resolve = "found"
        /\ (e.price = "data" \/ e.resolve = "empty") => e.price2 = "data"
        /\ ~QuoteRead(e) => e.fault = "none"
        /\ (~QuoteRead(e) \/ e.fault = "quote") => e.rates = "data"
        /\ e.rates = "empty" => e.fault = "none"
        /\ (~QuoteRead(e) \/ e.rates = "empty" \/ e.fault # "none") => e.change = 0}

\* every fetch answers and the price has not moved
QuietFetch == FetchEnv("data", "found", "data", "data", "none", 0)

Call(base_symbol, op, mapped) ==
    [base_symbol |-> base_symbol, op |-> op, mapped |-> mapped]

\* lines 149-195 for one base symbol: stored says that lines 188-191 ran,
\* resolved that line 158 wrote the mapping, raised that the except clause of
\* line 193 was reached; calls are the fetches and resolutions made, each with
\* whether the symbol had a mapping when the tick reached it
fetch_symbol(base_symbol, mapped, e) ==
    LET first == {Call(base_symbol, "get_current_price", mapped)}
        again == {Call(base_symbol, "_find_correct_symbol", mapped)}
                    \cup IF e.resolve = "found"
                         THEN {Call(base_symbol, "get_current_price", TRUE)}
                         ELSE {}
        quoted == IF e.price = "data" THEN first ELSE first \cup again
        bars == {Call(base_symbol, "get_rates",
                      mapped \/ (e.price = "empty" /\ e.resolve = "found"))}
        resolved == e.price = "empty" /\ e.resolve = "found"
        skip(calls, raised) == [stored |-> FALSE, price_change |-> 0,
                                resolved |-> resolved, raised |-> raised,
                                calls |-> calls]
    IN  IF ~QuoteRead(e) THEN skip(quoted, FALSE)
        ELSE IF e.fault = "quote" THEN skip(quoted, TRUE)
        ELSE IF e.rates = "empty" THEN skip(quoted \cup bars, FALSE)
        ELSE IF e.fault = "bars" THEN skip(quoted \cup bars, TRUE)
        ELSE [stored |-> TRUE, price_change |-> e.change, resolved |-> resolved,
              raised |-> FALSE, calls |-> quoted \cup bars]

\* the inner try missing: an exception of the body of one symbol reaches the
\* except clause of line 210, which ends the for loop
symbol_next_abort(j, n, raised) == IF raised THEN n + 1 ELSE j + 1

\* lines 148, 164, 170 and 193-195: the index of the for loop over
\* self.symbols after symbol j was stored, skipped or raised
symbol_next(j, n, raised) == j + 1

RECURSIVE poll_symbols(_, _, _, _)
\* lines 148-195: the for loop from symbol j on; acc holds the entries of
\* market_data['symbols'], the mapping and the calls so far
poll_symbols(symbols, fetch, j, acc) ==
    IF j > Len(symbols) THEN acc
    ELSE LET base_symbol == symbols[j]
             r == fetch_symbol(base_symbol, base_symbol \in acc.symbol_mapping,
                               fetch[j])
         IN  poll_symbols(symbols, fetch,
                 symbol_next(j, Len(symbols), r.raised),
                 [symbols |-> IF r.stored
                              THEN Append(acc.symbols, <<base_symbol, r.price_change>>)
                              ELSE acc.symbols,
                  symbol_mapping |-> IF r.resolved
                                     THEN acc.symbol_mapping \cup {base_symbol}
                                     ELSE acc.symbol_mapping,
                  calls |-> acc.calls \cup r.calls])

\* lines 135-213: the market_data returned, with the mapping and the calls the
\* tick leaves behind
get_real_time_data(symbols, symbol_mapping, fetch) ==
    LET acc == poll_symbols(symbols, fetch, 1,
                   [symbols |-> <<>>, symbol_mapping |-> symbol_mapping,
                    calls |-> {}])
        price_changes == [k \in 1..Len(acc.symbols) |-> acc.symbols[k][2]]
        some == price_changes # <<>>
    IN  [market_data |->
             [symbols |-> acc.symbols,
              market_state |-> market_state(price_changes),
              successful_symbols |-> IF some THEN Len(price_changes) ELSE 0,
              total_symbols |-> IF some THEN Len(symbols) ELSE 0],
         symbol_mapping |-> acc.symbol_mapping,
         calls |-> acc.calls]

(***************************************************************************)
(* RealTimeMonitor: subscription, start, stop and the polling loop         *)
(***************************************************************************)
MaxSubscribers == 3
MaxTicks == 3

\* AITrader._on_market_update and two other subscribers
Callbacks == {"on_market_update", "subscriber_a", "subscriber_b"}

\* the inner try missing: a fault of a callback reaches the except clause of
\* the loop body (lines 130-132), which ends the for loop
notify_next_abort(i, n, fault) == IF fault THEN n + 1 ELSE i + 1

\* lines 123-127: the index of the for loop after callback i returned or
\* raised; n is the number of subscribers
notify_next(i, n, fault) == i + 1

\* RealTimeMonitor.subscribe (lines 105-108); AITrader.initialize subscribes
\* before start_monitoring is called (ai_trader.py 176-179)
Subscribe ==
    /\ monitor.thread = "none"
    /\ Len(monitor.subscribers) < MaxSubscribers
    /\ \E callback \in Callbacks :
          monitor' = [monitor EXCEPT !.subscribers = Append(@, callback)]
    /\ UNCHANGED <<trade, settings, strategy>>
    /\ UNCHANGED envVars
    /\ UNCHANGED thrVars

\* RealTimeMonitor.start_monitoring (lines 30-48) with no worker alive:
\* _initialize_symbol_mapping (lines 50-60) starts from an empty mapping and
\* maps the symbols it finds, which are all of them but some of missing
StartMonitoring(lists, missing) ==
    /\ monitor.thread # "alive"
    /\ \E symbols \in lists : \E unresolved \in SUBSET missing :
          monitor' = [monitor EXCEPT
              !.symbols = symbols,
              !.symbol_mapping = {symbols[k] : k \in 1..Len(symbols)} \ unresolved,
              !.running = TRUE, !.thread = "alive", !.at = "loop"]
    /\ UNCHANGED <<trade, settings, strategy>>
    /\ UNCHANGED envVars
    /\ UNCHANGED thrVars

\* RealTimeMonitor.stop_monitoring (lines 98-103): the flag is cleared; the
\* join returns when the worker has ended or after 5 seconds
StopMonitoring ==
    /\ monitor.running
    /\ monitor' = [monitor EXCEPT !.running = FALSE]
    /\ UNCHANGED <<trade, settings, strategy>>
    /\ UNCHANGED envVars
    /\ UNCHANGED thrVars

\* the flag not tested: while True
loop_test_always(running) == TRUE

\* line 118: while self.running
loop_test(running) == running

\* lines 118-120: the while test, then _get_real_time_data, which returns a
\* market_data whatever its collaborators do (lines 135-213)
BeginTick(fetchEnvs) ==
    /\ monitor.thread = "alive"
    /\ monitor.at = "loop"
    /\ IF loop_test(monitor.running)
       THEN /\ monitor.ticks < MaxTicks
            /\ \E fetch \in [1..Len(monitor.symbols) -> fetchEnvs] :
                  LET got == get_real_time_data(monitor.symbols,
                                                monitor.symbol_mapping, fetch)
                  IN  monitor' = [monitor EXCEPT
                          !.at = "notify", !.i = 1, !.snapshot = @ + 1,
                          !.delivered = <<>>, !.data = got.market_data,
                          !.symbol_mapping = got.symbol_mapping,
                          !.fetch = fetch, !.calls = got.calls]
       ELSE monitor' = [monitor EXCEPT !.thread = "dead", !.at = "none"]
    /\ UNCHANGED <<trade, settings, strategy>>
    /\ UNCHANGED envVars
    /\ UNCHANGED thrVars

\* lines 123-127: the next subscriber is called with market_data and returns
\* or raises; _on_market_update catches every Exception itself (ai_trader.py
\* 193-205), any other subscriber may raise
Notify ==
    /\ monitor.thread = "alive"
    /\ monitor.at = "notify"
    /\ monitor.i <= Len(monitor.subscribers)
    /\ LET callback == monitor.subscribers[monitor.i]
       IN  \E fault \in {f \in BOOLEAN : f => callback # "on_market_update"} :
              monitor' = [monitor EXCEPT
                  !.delivered = Append(@, <<callback, monitor.snapshot>>),
                  !.caught = IF fault THEN @ + 1 ELSE @,
                  !.i = notify_next(monitor.i, Len(monitor.subscribers), fault)]
    /\ UNCHANGED <<trade, settings, strategy>>
    /\ UNCHANGED envVars
    /\ UNCHANGED thrVars

\* lines 129 and 132: the for loop is over, the worker sleeps update_interval
EndTick ==
    /\ monitor.thread = "alive"
    /\ monitor.at = "notify"
    /\ monitor.i > Len(monitor.subscribers)
    /\ monitor' = [monitor EXCEPT !.at = "sleep", !.ticks = @ + 1]
    /\ UNCHANGED <<trade, settings, strategy>>
    /\ UNCHANGED envVars
    /\ UNCHANGED thrVars

\* time.sleep(self.update_interval) returns: back to the while test
Wake ==
    /\ monitor.thread = "alive"
    /\ monitor.at = "sleep"
    /\ monitor' = [monitor EXCEPT !.at = "loop"]
    /\ UNCHANGED <<trade, settings, strategy>>
    /\ UNCHANGED envVars
    /\ UNCHANGED thrVars

(***************************************************************************)
(* SpecMonitor: the monitor alone                                          *)
(***************************************************************************)
InitMonitor ==
    /\ sym = [trade_mode_full |-> TRUE, visible |-> TRUE, trade_stops_level |-> 0]
    /\ quote = [bid |-> 1000, spread |-> 2]
    /\ positions = {}
    /\ ThreadsIdle
    /\ AppIdle

NextMonitor ==
    \/ Subscribe
    \/ StartMonitoring({<<"EURUSD">>}, {})
    \/ StopMonitoring
    \/ BeginTick({QuietFetch})
    \/ Notify
    \/ EndTick
    \/ Wake

SpecMonitor == InitMonitor /\ [][NextMonitor]_vars

\* the calls a tick owes its subscribers: each one, in order, with the
\* snapshot of the tick
Owed(m) == [k \in 1..Len(m.subscribers) |-> <<m.subscribers[k], m.snapshot>>]

\* C10: whatever callbacks fault, a tick calls the subscribers one after the
\* other with the snapshot of the tick, has called every one of them when it
\* completes, and the worker ends only after running was cleared.
C10_FaultsDoNotAbortTick ==
    /\ monitor.at = "notify" =>
           /\ Len(monitor.delivered) = monitor.i - 1
           /\ monitor.delivered = SubSeq(Owed(monitor), 1, monitor.i - 1)
    /\ monitor.at = "sleep" => monitor.delivered = Owed(monitor)
    /\ monitor.thread = "dead" => ~monitor.running

\* C10 witness: the second tick is complete with all three subscribers called,
\* the two that may fault having faulted in both ticks
C10_Witness ==
    /\ monitor.at = "sleep"
    /\ monitor.ticks = 2
    /\ monitor.subscribers = <<"subscriber_a", "on_market_update", "subscriber_b">>
    /\ monitor.caught = 4
    /\ monitor.delivered = Owed(monitor)


(***************************************************************************)
(* SpecData: one tick of the worker over every answer of the data fetcher  *)
(***************************************************************************)
NextData ==
    \/ StartMonitoring(SymbolLists, {})
    \/ BeginTick(FetchEnvs)

SpecData == InitMonitor /\ [][NextData]_vars

RECURSIVE EntriesOwed(_, _, _)
\* the entries a tick owes: one per symbol that succeeded, in list order; a
\* symbol succeeds when its quote was read, at once or after a new
\* resolution, its bars were read, and reading them raised nothing
EntriesOwed(symbols, fetch, k) ==
    IF k > Len(symbols) THEN <<>>
    ELSE LET e == fetch[k]
             succeeded == QuoteRead(e) /\ e.rates = "data" /\ e.fault = "none"
         IN  (IF succeeded THEN <<<<symbols[k], e.change>>>> ELSE <<>>)
                 \o EntriesOwed(symbols, fetch, k + 1)

ChangesOf(entries) == [k \in 1..Len(entries) |-> entries[k][2]]

\* C11: whichever symbols fail in a tick, by an empty answer or an exception
\* at the quote, the resolution or the bars, the snapshot has an entry for
\* each symbol that did not fail and for no other, and the market state and
\* the count of successes are those of exactly these entries.
C11_FailuresIsolatedPerSymbol ==
    monitor.snapshot > 0 =>
        LET owed == EntriesOwed(monitor.symbols, monitor.fetch, 1)
        IN  /\ monitor.data.symbols = owed
            /\ monitor.data.market_state = market_state(ChangesOf(owed))
            /\ monitor.data.successful_symbols = Len(owed)

\* C11 witness: of three symbols the first raises while its quote is read,
\* the second has no bars, and the third alone makes the snapshot
C11_Witness ==
    /\ monitor.snapshot = 1
    /\ monitor.symbols = <<"EURUSD", "GBPUSD", "USDJPY">>
    /\ monitor.fetch[1].fault = "quote"
    /\ monitor.fetch[2].rates = "empty"
    /\ monitor.data.symbols = <<<<"USDJPY", 2000>>>>
    /\ monitor.data.market_state = "BULLISH"

\* C12: with at least one symbol in the snapshot the market state is BULLISH
\* when the mean price change is above +0.1, BEARISH when it is below -0.1,
\* and SIDEWAYS otherwise, a mean of exactly +0.1 or -0.1 included; the mean
\* is taken as the exact number sum / n.
C12_StateOfMeanChange ==
    LET RECURSIVE Sum(_)
        Sum(seq) == IF seq = <<>> THEN 0 ELSE Head(seq) + Sum(Tail(seq))
        price_changes == ChangesOf(monitor.data.symbols)
        n == Len(price_changes)
    IN  n > 0 =>
            monitor.data.market_state =
                IF Sum(price_changes) > n * StateThreshold THEN "BULLISH"
                ELSE IF Sum(price_changes) < 0 - n * StateThreshold THEN "BEARISH"
                ELSE "SIDEWAYS"

(***************************************************************************)
(* SpecResolve: ticks over symbols the start could not resolve             *)
(***************************************************************************)
\* the quote is there, or it is not and the new resolution fails or succeeds
ResolveEnvs ==
    {QuietFetch,
     FetchEnv("empty", "empty", "data", "data", "none", 0),
     FetchEnv("empty", "found", "data", "data", "none", 0)}

NextResolve ==
    \/ StartMonitoring(SymbolLists, {"EURUSD", "GBPUSD"})
    \/ BeginTick(ResolveEnvs)
    \/ EndTick
    \/ Wake

SpecResolve == InitMonitor /\ [][NextResolve]_vars

\* C13: a symbol whose resolution failed is skipped by every later tick: the
\* polling loop fetches no quote and no bars for it and does not try to
\* resolve it again, so every call of a tick is for a symbol that had a
\* mapping when the tick reached it.
C13_UnresolvedSymbolSkipped ==
    \A c \in monitor.calls : c.mapped

(***************************************************************************)
(* SpecStop: the monitor with a worker thread that is scheduled            *)
(***************************************************************************)
\* the data fetcher answers nothing, as it does without a connection
\* (data.py 232-261)
NoFetch == FetchEnv("empty", "empty", "data", "data", "none", 0)

NextStop ==
    \/ Subscribe
    \/ StartMonitoring({<<"EURUSD">>}, {"EURUSD"})
    \/ StopMonitoring
    \/ BeginTick({NoFetch})
    \/ Notify
    \/ EndTick
    \/ Wake

\* the worker is a thread of its own (line 40): the scheduler runs it, its
\* sleep returns (line 129) and a callback it calls returns or raises
WorkerRuns ==
    /\ WF_vars(BeginTick({NoFetch}))
    /\ WF_vars(Notify)
    /\ WF_vars(EndTick)
    /\ WF_vars(Wake)

SpecStop == InitMonitor /\ [][NextStop]_vars /\ WorkerRuns

\* C14: while running stays cleared after stop_monitoring the worker begins
\* no new tick, calls subscribers only with the snapshot of the tick that was
\* in progress, and a worker that is alive with the flag cleared eventually
\* terminates.
C14_StopEndsWorker ==
    /\ [][(~monitor.running /\ ~monitor'.running) =>
             /\ monitor'.snapshot = monitor.snapshot
             /\ monitor'.ticks <= monitor.ticks + 1
             /\ \A k \in 1..Len(monitor'.delivered) :
                   monitor'.delivered[k][2] = monitor.snapshot]_vars
    /\ (~monitor.running /\ monitor.thread = "alive") ~> (monitor.thread = "dead")

\* C14 witness: stop_monitoring has cleared the flag while the worker is in
\* the middle of its second tick, one of three subscribers called
C14_Witness ==
    /\ ~monitor.running
    /\ monitor.thread = "alive"
    /\ monitor.at = "notify"
    /\ monitor.snapshot = 2
    /\ Len(monitor.subscribers) = 3
    /\ Len(monitor.delivered) = 1

(***************************************************************************)
(* SpecApi: the caller's operations beside a running worker                *)
(***************************************************************************)
MaxOrphans == 1

\* RealTimeMonitor.start_monitoring (lines 30-48) while a worker is alive:
\* nothing tests self.thread; the flag is set, the mapping rebuilt, and
\* self.thread names a new worker, the old one running on
StartMonitoringAgain(lists, missing) ==
    /\ monitor.thread = "alive"
    /\ Len(monitor.orphans) < MaxOrphans
    /\ \E symbols \in lists : \E unresolved \in SUBSET missing :
          monitor' = [monitor EXCEPT
              !.symbols = symbols,
              !.symbol_mapping = {symbols[k] : k \in 1..Len(symbols)} \ unresolved,
              !.running = TRUE, !.at = "loop",
              !.orphans = Append(@, [at |-> monitor.at, i |-> monitor.i])]
    /\ UNCHANGED <<trade, settings, strategy>>
    /\ UNCHANGED envVars
    /\ UNCHANGED thrVars

\* _monitoring_loop (lines 116-133) in a worker self.thread no longer names:
\* it tests the same flag and calls the same subscribers
OrphanStep ==
    /\ \E k \in 1..Len(monitor.orphans) :
          LET w == monitor.orphans[k]
              next == IF w.at = "loop"
                      THEN IF loop_test(monitor.running)
                           THEN [at |-> "notify", i |-> 1]
                           ELSE [at |-> "dead", i |-> 0]
                      ELSE IF w.at = "notify"
                      THEN IF w.i <= Len(monitor.subscribers)
                           THEN [at |-> "notify", i |-> w.i + 1]
                           ELSE [at |-> "sleep", i |-> w.i]
                      ELSE [at |-> "loop", i |-> w.i]
          IN  /\ w.at # "dead"
              /\ monitor' = [monitor EXCEPT !.orphans[k] = next]
    /\ UNCHANGED <<trade, settings, strategy>>
    /\ UNCHANGED envVars
    /\ UNCHANGED thrVars

\* RealTimeMonitor.unsubscribe (lines 110-114), at any time; list.remove(x)
\* gives the list without the first occurrence of x
Unsubscribe ==
    /\ \E callback \in Callbacks :
          LET remove(list, x) ==
                  LET first == CHOOSE k \in 1..Len(list) :
                                   list[k] = x /\ \A j \in 1..(k - 1) : list[j] # x
                  IN  SubSeq(list, 1, first - 1)
                          \o SubSeq(list, first + 1, Len(list))
          IN  /\ \E k \in 1..Len(monitor.subscribers) :
                    monitor.subscribers[k] = callback
              /\ monitor' = [monitor EXCEPT !.subscribers = remove(@, callback)]
    /\ UNCHANGED <<trade, settings, strategy>>
    /\ UNCHANGED envVars
    /\ UNCHANGED thrVars

\* RealTimeMonitor.get_market_summary (lines 266-302) on the caller's thread,
\* as the dashboard calls it while the worker runs (ai_trader.py 1378): its
\* own _get_real_time_data reads self.symbols and writes symbol_mapping
GetMarketSummary(fetchEnvs) ==
    /\ \E fetch \in [1..Len(monitor.symbols) -> fetchEnvs] :
          LET got == get_real_time_data(monitor.symbols, monitor.symbol_mapping,
                                        fetch)
          IN  monitor' = [monitor EXCEPT !.symbol_mapping = got.symbol_mapping]
    /\ UNCHANGED <<trade, settings, strategy>>
    /\ UNCHANGED envVars
    /\ UNCHANGED thrVars

\* AITrader.initialize has subscribed _on_market_update (ai_trader.py 179),
\* and one more subscriber has
InitApi ==
    /\ sym = [trade_mode_full |-> TRUE, visible |-> TRUE, trade_stops_level |-> 0]
    /\ quote = [bid |-> 1000, spread |-> 2]
    /\ positions = {}
    /\ ThreadsIdle
    /\ trade = [t \in Threads |-> NoTrade]
    /\ settings = DefaultSettings
    /\ monitor = [NoMonitor EXCEPT
                      !.subscribers = <<"on_market_update", "subscriber_a">>]
    /\ strategy = NoStrategy

NextApi ==
    \/ StartMonitoring({<<"EURUSD">>}, {"EURUSD"})
    \/ StartMonitoringAgain({<<"EURUSD">>}, {"EURUSD"})
    \/ StopMonitoring
    \/ BeginTick({QuietFetch})
    \/ Notify
    \/ EndTick
    \/ Wake
    \/ OrphanStep
    \/ Unsubscribe
    \/ GetMarketSummary(ResolveEnvs)

SpecApi == InitApi /\ [][NextApi]_vars

\* C15: after any sequence of start_monitoring and stop_monitoring calls, a
\* second start or a start right after a stop whose join timed out included,
\* at most one polling worker is alive and executing ticks.
C15_AtMostOneWorker ==
    LET \* the workers that have not ended
        alive == (IF monitor.thread = "alive" THEN 1 ELSE 0)
                     + Cardinality({k \in 1..Len(monitor.orphans) :
                                       monitor.orphans[k].at # "dead"})
    IN  alive <= 1

\* C16: no caller operation changes the subscriber list while a tick of the
\* worker is iterating over it, the loop having subscribers still to call.
C16_NoChangeUnderIteration ==
    [][(/\ monitor.thread = "alive"
        /\ monitor.at = "notify"
        /\ monitor.i <= Len(monitor.subscribers))
           => monitor'.subscribers = monitor.subscribers]_vars

(***************************************************************************)
(* Strategies: generate_signal of the five variants (strategies.py)        *)
(* A frame holds the number of bars and the columns generate_signal reads  *)
(* from the last two rows; ratios are in hundredths.  An optional column   *)
(* that is absent reads as its default, which is among the values.  With   *)
(* columns FALSE a required column is missing and reading it raises.       *)
(***************************************************************************)
\* the length test missing
min_bars_none(name) == 0

\* lines 312, 426, 572, 716 and 871: the fewest bars each variant evaluates
min_bars(name) ==
    CASE name = "simple_ma" -> 50
      [] name = "rsi" -> 30
      [] name = "macd" -> 35
      [] name = "bollinger" -> 50
      [] name = "advanced" -> 50

\* the frames of a variant: an empty one, every content at the lengths
\* around the minimum (one bar short, enough), and at each length a frame
\* that lacks a required column
Frames(name, contents) ==
    LET some == CHOOSE l \in contents : TRUE
        BarCounts == CASE name = "simple_ma" -> {0, 49, 50}
                       [] name = "rsi" -> {0, 29, 30}
                       [] name = "macd" -> {0, 34, 35}
                       [] name = "bollinger" -> {0, 49, 50}
                       [] name = "advanced" -> {0, 49, 50}
    IN  {[bars |-> b, columns |-> TRUE, latest |-> l] :
            b \in BarCounts \ {0}, l \in contents}
        \cup {[bars |-> b, columns |-> FALSE, latest |-> some] : b \in BarCounts}
        \cup {[bars |-> 0, columns |-> TRUE, latest |-> some]}

\* the columns each generate_signal reads, with values on both sides of every
\* comparison it makes.
\* SimpleMAStrategy reads sma_20 and sma_50 of the last two rows and, of the
\* last row, rsi, macd, macd_signal, volume_ratio, adx, atr, close and
\* price_channel_middle.
\* RSIStrategy reads of the last row rsi, bb_position, macd, macd_signal,
\* stoch_k, stoch_d, volume_ratio, rsi_7 and rsi_21.
\* MACDStrategy reads macd, macd_signal and macd_histogram of the last two
\* rows and, of the last row, rsi, stoch_k, volume_ratio, atr, close,
\* macd_6_13 and macd_signal_6_13.
\* BollingerBandsStrategy reads of the last row close, bb_lower, bb_upper,
\* percent_b, rsi, macd, macd_signal, volume_ratio, squeeze and bb_width_pct.
\* AdvancedMultiStrategy reads macd and macd_signal of the last two rows and,
\* of the last row, rsi, close, bb_lower, bb_upper, bb_position, stoch_k,
\* stoch_d, trend_composite, adx, psar_trend, volume_ratio and
\* volatility_index. The close is below the bands, above them, or inside at
\* one of three positions; adx and psar_trend vary where the code reads them,
\* with trend_composite = 2.
Contents(name) ==
    CASE name = "simple_ma" ->
        [sma_20 : {99, 100, 101}, sma_50 : {100},
         previous_sma_20 : {99, 100, 101}, previous_sma_50 : {100},
         rsi : {30, 50, 70, 80}, macd : {0 - 1, 0, 1}, macd_signal : {0},
         volume_ratio : {100, 150}, adx : {0, 30}, atr : {1, 2}, close : {100},
         price_channel_middle : {99, 100}]
      [] name = "rsi" ->
        [rsi : {25, 50, 75}, bb_position : {10, 50, 90}, macd : {0, 1},
         macd_signal : {0}, stoch_k : {10, 90}, stoch_d : {10, 90},
         volume_ratio : {80, 100}, rsi_7 : {20, 50, 80}, rsi_21 : {35, 65}]
      [] name = "macd" ->
        [macd : {0 - 1, 1}, macd_signal : {0 - 2, 0, 2},
         previous_macd : {0 - 1, 0, 1}, previous_macd_signal : {0},
         macd_histogram : {0, 1}, previous_macd_histogram : {0},
         rsi : {40, 50}, stoch_k : {20, 50}, volume_ratio : {90, 100},
         atr : {1}, close : {100}, macd_6_13 : {0, 1}, macd_signal_6_13 : {0}]
      [] name = "bollinger" ->
        [close : {100}, bb_lower : {90, 101}, bb_upper : {99, 110},
         percent_b : {10, 50, 90}, rsi : {30, 50, 70}, macd : {0, 1},
         macd_signal : {0}, volume_ratio : {100, 150}, squeeze : BOOLEAN,
         bb_width_pct : {50, 100}]
      [] name = "advanced" ->
        LET bands == {<<101, 110, 0>>, <<90, 99, 100>>, <<90, 110, 20>>,
                      <<90, 110, 50>>, <<90, 110, 80>>}
            trends == {<<1, 20, 1>>, <<3, 20, 1>>, <<2, 20, 1>>, <<2, 30, 1>>,
                       <<2, 30, 0 - 1>>}
        IN  {[rsi |-> rsi, macd |-> macd, macd_signal |-> 0,
              previous_macd |-> previous_macd, previous_macd_signal |-> 0,
              close |-> 100, bb_lower |-> band[1], bb_upper |-> band[2],
              bb_position |-> band[3], stoch_k |-> stoch_k, stoch_d |-> stoch_d,
              trend_composite |-> trend[1], adx |-> trend[2], psar_trend |-> trend[3],
              volume_ratio |-> volume_ratio, volatility_index |-> volatility_index] :
                rsi \in {25, 35, 45, 55, 75}, macd \in {0 - 1, 1},
                previous_macd \in {0 - 1, 1}, band \in bands,
                stoch_k \in {10, 90}, stoch_d \in {10, 90}, trend \in trends,
                volume_ratio \in {100, 130, 160}, volatility_index \in {30, 100, 250}}

\* the BUY score: strength of lines 332-355 (simple_ma), 450-477 (rsi),
\* 600-631 (macd) and 736-759 (bollinger)
strength(name, latest) ==
    CASE name = "simple_ma" ->
        LET ma_bullish == /\ latest.sma_20 > latest.sma_50
                          /\ latest.previous_sma_20 <= latest.previous_sma_50
            rsi_ok == 30 < latest.rsi /\ latest.rsi < 70
            macd_bullish == latest.macd > latest.macd_signal
            volume_ok == latest.volume_ratio > 100
            adx_strong == latest.adx > 25
            atr_ratio == latest.atr * 100 < 2 * latest.close
        IN  (IF ma_bullish /\ rsi_ok /\ macd_bullish THEN 40 ELSE 0)
            + (IF volume_ok THEN 20 ELSE 0)
            + (IF adx_strong THEN 20 ELSE 0)
            + (IF atr_ratio THEN 10 ELSE 0)
            + (IF latest.close > latest.price_channel_middle THEN 10 ELSE 0)
      [] name = "rsi" ->
        LET rsi_aligned == \/ latest.rsi_7 < 30 /\ latest.rsi_21 < 40
                           \/ latest.rsi_7 > 70 /\ latest.rsi_21 > 60
        IN  (IF latest.rsi < 30 THEN 25 ELSE 0)
            + (IF latest.stoch_k < 20 /\ latest.stoch_d < 20 THEN 15 ELSE 0)
            + (IF latest.bb_position < 20 THEN 20 ELSE 0)
            + (IF latest.macd > latest.macd_signal THEN 15 ELSE 0)
            + (IF rsi_aligned THEN 15 ELSE 0)
            + (IF latest.volume_ratio > 80 THEN 10 ELSE 0)
      [] name = "macd" ->
        LET macd_bullish_cross == /\ latest.previous_macd <= latest.previous_macd_signal
                                  /\ latest.macd > latest.macd_signal
            macd_aligned == (latest.macd_6_13 > latest.macd_signal_6_13)
                                = (latest.macd > latest.macd_signal)
        IN  (IF macd_bullish_cross THEN 30 ELSE 0)
            + (IF latest.macd_histogram > latest.previous_macd_histogram THEN 15 ELSE 0)
            + (IF latest.macd > 0 THEN 10 ELSE 0)
            + (IF 40 < latest.rsi /\ latest.rsi < 70 THEN 15 ELSE 0)
            + (IF 20 < latest.stoch_k /\ latest.stoch_k < 80 THEN 10 ELSE 0)
            + (IF latest.volume_ratio > 90 THEN 10 ELSE 0)
            + (IF macd_aligned THEN 10 ELSE 0)
      [] name = "bollinger" ->
        LET below_lower_band == latest.close < latest.bb_lower
            in_middle == latest.bb_lower < latest.close /\ latest.close < latest.bb_upper
        IN  (IF below_lower_band \/ (in_middle /\ latest.percent_b < 20) THEN 30 ELSE 0)
            + (IF latest.rsi < 35 THEN 20 ELSE 0)
            + (IF latest.macd > latest.macd_signal THEN 15 ELSE 0)
            + (IF latest.volume_ratio > 100 THEN 15 ELSE 0)
            + (IF ~latest.squeeze /\ latest.bb_width_pct > 80 THEN 10 ELSE 0)

\* the SELL score: sell_strength of lines 479-496 (rsi), 633-646 (macd) and
\* 761-774 (bollinger)
sell_strength(name, latest) ==
    CASE name = "rsi" ->
        (IF latest.rsi > 70 THEN 25 ELSE 0)
        + (IF latest.stoch_k > 80 /\ latest.stoch_d > 80 THEN 15 ELSE 0)
        + (IF latest.bb_position > 80 THEN 20 ELSE 0)
        + (IF ~(latest.macd > latest.macd_signal) THEN 15 ELSE 0)
      [] name = "macd" ->
        LET macd_bearish_cross == /\ latest.previous_macd >= latest.previous_macd_signal
                                  /\ latest.macd < latest.macd_signal
        IN  (IF macd_bearish_cross THEN 30 ELSE 0)
            + (IF ~(latest.macd_histogram > latest.previous_macd_histogram) THEN 15 ELSE 0)
            + (IF ~(latest.macd > 0) THEN 10 ELSE 0)
      [] name = "bollinger" ->
        LET above_upper_band == latest.close > latest.bb_upper
            in_middle == latest.bb_lower < latest.close /\ latest.close < latest.bb_upper
        IN  (IF above_upper_band \/ (in_middle /\ latest.percent_b > 80) THEN 30 ELSE 0)
            + (IF latest.rsi > 65 THEN 20 ELSE 0)
            + (IF ~(latest.macd > latest.macd_signal) THEN 15 ELSE 0)

\* the score that lets a side win (lines 499, 649, 777)
SignalFloor == 60

\* the floor not applied: the larger score wins
final_signal_no_floor(buy, sell, cap) ==
    IF buy > sell THEN Decision("BUY", Min(buy, cap))
    ELSE IF sell > buy THEN Decision("SELL", Min(sell, cap))
    ELSE Decision("HOLD", 0)

\* HOLD answered with the larger score instead of 0
final_signal_hold_scored(buy, sell, cap) ==
    IF buy >= SignalFloor /\ buy > sell
    THEN Decision("BUY", Min(buy, cap))
    ELSE IF sell >= SignalFloor /\ sell > buy
    THEN Decision("SELL", Min(sell, cap))
    ELSE Decision("HOLD", Max(buy, sell))

\* lines 498-516, 648-666 and 776-794: the final signal from the BUY score
\* and the SELL score, the strength capped
final_signal(buy, sell, cap) ==
    IF buy >= SignalFloor /\ buy > sell
    THEN Decision("BUY", Min(buy, cap))
    ELSE IF sell >= SignalFloor /\ sell > buy
    THEN Decision("SELL", Min(sell, cap))
    ELSE Decision("HOLD", 0)

\* lines 811-819: the weights of the components, in hundredths
weights ==
    [rsi |-> 15, macd |-> 20, bb |-> 15, stoch |-> 10, trend |-> 20,
     volume |-> 10, volatility |-> 10]

\* lines 883-955: the scores of the components, in tenths
components(latest) ==
    LET trend_score ==
            IF latest.trend_composite >= 3 THEN 10
            ELSE IF latest.trend_composite <= 1 THEN 0 - 10
            ELSE IF latest.adx > 25
            THEN (IF latest.psar_trend > 0 THEN 5 ELSE 0 - 5)
            ELSE 0
    IN  [rsi |-> IF latest.rsi < 30 THEN 10
                 ELSE IF latest.rsi > 70 THEN 0 - 10
                 ELSE IF 40 < latest.rsi /\ latest.rsi < 60
                 THEN (IF latest.rsi > 50 THEN 5 ELSE 0 - 5)
                 ELSE 0,
         macd |-> IF /\ latest.macd > latest.macd_signal
                     /\ latest.previous_macd <= latest.previous_macd_signal
                  THEN 10
                  ELSE IF /\ latest.macd < latest.macd_signal
                          /\ latest.previous_macd >= latest.previous_macd_signal
                  THEN 0 - 10
                  ELSE IF latest.macd > latest.macd_signal THEN 5
                  ELSE 0 - 5,
         bb |-> IF latest.close < latest.bb_lower THEN 10
                ELSE IF latest.close > latest.bb_upper THEN 0 - 10
                ELSE IF latest.bb_position < 30 THEN 5
                ELSE IF latest.bb_position > 70 THEN 0 - 5
                ELSE 0,
         stoch |-> IF latest.stoch_k < 20 /\ latest.stoch_d < 20 THEN 10
                   ELSE IF latest.stoch_k > 80 /\ latest.stoch_d > 80 THEN 0 - 10
                   ELSE IF latest.stoch_k > latest.stoch_d THEN 3
                   ELSE 0 - 3,
         trend |-> trend_score,
         volume |-> IF latest.volume_ratio > 150
                    THEN (IF trend_score > 0 THEN 10 ELSE 0 - 10)
                    ELSE IF latest.volume_ratio > 120
                    THEN (IF trend_score > 0 THEN 5 ELSE 0 - 5)
                    ELSE 0,
         volatility |-> IF latest.volatility_index < 50 THEN 3
                        ELSE IF latest.volatility_index > 200 THEN 0 - 5
                        ELSE 0]

\* a * b in double arithmetic, for 0 <= a, b <= 1 and a product that is 0 or
\* at least 2^-6, both in units of 2^-58. TimesFrom is the exact product
\* whole + part / 2^58 of a by the bits of b above bit acc.i.
DoubleTimesPositive(a, b) ==
    LET one == Big(LimbBase, 0)
        Bit(i) == IF i >= 29 THEN (b.hi \div 2 ^ (i - 29)) % 2
                  ELSE (b.lo \div 2 ^ i) % 2
        RECURSIVE TimesFrom(_)
        TimesFrom(acc) ==
            IF acc.i < 0 THEN acc
            ELSE LET part2 == BigAdd(acc.part, acc.part)
                     carry2 == ~BigLess(part2, one)
                     whole2 == BigAdd(BigAdd(acc.whole, acc.whole),
                                      Big(0, IF carry2 THEN 1 ELSE 0))
                     part2r == IF carry2 THEN Big(part2.hi - LimbBase, part2.lo)
                               ELSE part2
                     part3 == IF Bit(acc.i) = 1 THEN BigAdd(part2r, a) ELSE part2r
                     carry3 == ~BigLess(part3, one)
                 IN  TimesFrom(
                         [i |-> acc.i - 1,
                          whole |-> BigAdd(whole2, Big(0, IF carry3 THEN 1 ELSE 0)),
                          part |-> IF carry3 THEN Big(part3.hi - LimbBase, part3.lo)
                                   ELSE part3])
        p == TimesFrom([i |-> 58, whole |-> BigZero, part |-> BigZero])
        half == Big(LimbBase \div 2, 0)
        r == IF p.part = BigZero THEN 0
             ELSE IF BigLess(p.part, half) THEN 1
             ELSE IF p.part = half THEN 2
             ELSE 3
    IN  RoundToDouble(p.whole, r, 4)

\* components[indicator_name] * weight (line 962) for every size of score, in
\* tenths, and every weight, in hundredths, of lines 811-955
products ==
    [score \in {0, 3, 5, 10}, weight \in {10, 15, 20} |->
        DoubleTimesPositive(DoubleOf(score * 1000), DoubleOf(weight * 100))]

\* lines 958-962: total_score, the weighted scores added to 0 in the order
\* of the weights
total_score(latest) ==
    LET signed(product, negative) == IF negative THEN BigNeg(product) ELSE product
        RECURSIVE add(_, _, _)
        add(total, c, names) ==
            IF names = <<>> THEN total
            ELSE add(DoubleAdd(total,
                         signed(products[IF c[Head(names)] < 0 THEN 0 - c[Head(names)]
                                         ELSE c[Head(names)],
                                         weights[Head(names)]],
                                c[Head(names)] < 0)),
                     c, Tail(names))
    IN  add(BigZero, components(latest),
            <<"rsi", "macd", "bb", "stoch", "trend", "volume", "volatility">>)

\* int(x / 0.7 * 100) (lines 967 and 971) for a double x, 0 < x <= 0.7 + 2^-53:
\* x is doubled until it is at least 0.7, long division gives 53 binary
\* digits of the quotient, which is rounded; its product by 100 is rounded
\* again, and int drops the fraction
strength_of(x) ==
    LET c == DoubleOf(7000)
        RECURSIVE Normalised(_)
        Normalised(n) ==
            IF BigLess(n.x, c)
            THEN Normalised([x |-> BigAdd(n.x, n.x), shifts |-> n.shifts + 1])
            ELSE n
        RECURSIVE QuotientBits(_)
        QuotientBits(d) ==
            IF d.n = 0 THEN d
            ELSE LET r2 == BigAdd(d.r, d.r)
                     ge == ~BigLess(r2, c)
                 IN  QuotientBits(
                         [q |-> BigAdd(BigAdd(d.q, d.q), Big(0, IF ge THEN 1 ELSE 0)),
                          r |-> IF ge THEN BigAdd(r2, BigNeg(c)) ELSE r2,
                          n |-> d.n - 1])
        rounded(d) ==
            LET twice == BigAdd(d.r, d.r)
            IN  IF BigLess(c, twice) \/ (twice = c /\ d.q.lo % 2 = 1)
                THEN BigAdd(d.q, Big(0, 1))
                ELSE d.q
        times4(q) == BigAdd(BigAdd(q, q), BigAdd(q, q))
        times5(q) == BigAdd(times4(q), q)
        percent(n) ==
            IF n.shifts > 7 THEN 0
            ELSE RoundToDouble(
                     times4(times5(times5(rounded(QuotientBits(
                         [q |-> Big(0, 1), r |-> BigAdd(n.x, BigNeg(c)), n |-> 52]))))),
                     0, 1).hi \div 2 ^ (n.shifts + 23)
    IN  percent(Normalised([x |-> x, shifts |-> 0]))

\* generate_signal of SimpleMAStrategy (lines 309-378), RSIStrategy
\* (423-520), MACDStrategy (569-670), BollingerBandsStrategy (713-798) and
\* AdvancedMultiStrategy (868-996): the length test, then the last rows are
\* read, which raises when a column is missing, and the except branch
\* answers HOLD
generate_signal(name, frame) ==
    IF frame.bars < min_bars(name) THEN Decision("HOLD", 0)
    ELSE IF ~frame.columns THEN Decision("HOLD", 0)
    ELSE LET latest == frame.latest
         IN  CASE name = "simple_ma" ->
                 LET ma_bullish == /\ latest.sma_20 > latest.sma_50
                                   /\ latest.previous_sma_20 <= latest.previous_sma_50
                     ma_bearish == /\ latest.sma_20 < latest.sma_50
                                   /\ latest.previous_sma_20 >= latest.previous_sma_50
                     points == strength(name, latest)
                 IN  IF ma_bullish /\ points >= 60
                     THEN Decision("BUY", Min(points, 95))
                     ELSE IF ma_bearish /\ points >= 50
                     THEN Decision("SELL", Min(points, 95))
                     ELSE Decision("HOLD", 0)
               [] name \in {"rsi", "bollinger"} ->
                 final_signal(strength(name, latest), sell_strength(name, latest), 90)
               [] name = "macd" ->
                 final_signal(strength(name, latest), sell_strength(name, latest), 95)
               [] name = "advanced" ->
                 LET floor == DoubleOf(3000)
                     convert(total) ==
                         IF BigLess(floor, total)
                         THEN Decision("BUY",
                                  Min(strength_of(DoubleAdd(total, BigNeg(floor))), 95))
                         ELSE IF BigLess(total, BigNeg(floor))
                         THEN Decision("SELL",
                                  Min(strength_of(DoubleAdd(BigNeg(total), BigNeg(floor))),
                                      95))
                         ELSE Decision("HOLD", 0)
                 IN  convert(total_score(latest))

\* a strategy of STRATEGIES_REGISTRY (lines 1000-1006) asked for a signal on
\* one of its frames; generate_signal keeps no state, so one call is followed
GenerateSignal(name) ==
    /\ strategy = NoStrategy
    /\ \E frame \in Frames(name, Contents(name)) :
          strategy' = [name |-> name, frame |-> frame,
                       decision |-> generate_signal(name, frame)]
    /\ UNCHANGED <<trade, settings, monitor>>
    /\ UNCHANGED envVars
    /\ UNCHANGED thrVars

(***************************************************************************)
(* SpecSignal: every strategy on every frame                               *)
(***************************************************************************)
NextSignal ==
    \/ GenerateSignal("simple_ma")
    \/ GenerateSignal("rsi")
    \/ GenerateSignal("macd")
    \/ GenerateSignal("bollinger")
    \/ GenerateSignal("advanced")

SpecSignal == InitMonitor /\ [][NextSignal]_vars

(***************************************************************************)
(* SpecFlow: from the bars to the order, on the manual path and on the     *)
(* monitor's path (ai_trader.py)                                           *)
(***************************************************************************)
\* the frames the current strategy is asked on: the frames of each variant
\* over a part of its grid on which it gives BUY, SELL and HOLD, weak and
\* strong
signal_frames ==
    [name \in {"simple_ma", "rsi", "macd", "bollinger", "advanced"} |->
      Frames(name,
        {l \in Contents(name) :
            CASE name = "simple_ma" ->
                     /\ l.sma_20 # 100 /\ l.previous_sma_20 = 100
                     /\ l.rsi = 50 /\ l.macd = 1 /\ l.volume_ratio = 150
                     /\ l.atr = 1 /\ l.price_channel_middle = 99
              [] name = "rsi" ->
                     /\ l.rsi # 50 /\ l.bb_position # 50 /\ l.macd = 1
                     /\ l.stoch_k = l.stoch_d /\ (l.rsi = 25) = (l.stoch_k = 10)
                     /\ l.volume_ratio = 100 /\ l.rsi_7 = 20 /\ l.rsi_21 = 35
              [] name = "macd" ->
                     /\ l.macd = 1 /\ l.macd_signal = 0 /\ l.previous_macd # 1
                     /\ l.macd_histogram = 1 /\ l.rsi = 50 /\ l.stoch_k = 50
                     /\ l.volume_ratio = 100 /\ l.macd_6_13 = 1
              [] name = "bollinger" ->
                     /\ l.bb_lower = 90 /\ l.bb_upper = 110 /\ l.percent_b # 50
                     /\ l.rsi # 50 /\ (l.rsi = 30) = (l.percent_b = 10)
                     /\ l.macd = 0 /\ l.volume_ratio = 150 /\ ~l.squeeze
                     /\ l.bb_width_pct = 100
              [] name = "advanced" ->
                     /\ l.rsi \in {25, 75} /\ l.macd # l.previous_macd
                     /\ (l.rsi = 25) = (l.macd = 1)
                     /\ l.bb_lower = 90 /\ l.bb_upper = 110
                     /\ l.bb_position = (IF l.rsi = 25 THEN 20 ELSE 80)
                     /\ l.stoch_k = l.stoch_d /\ (l.rsi = 25) = (l.stoch_k = 10)
                     /\ l.trend_composite = (IF l.rsi = 25 THEN 3 ELSE 1)
                     /\ l.volume_ratio = 160 /\ l.volatility_index = 100})]

\* any signal is traded as a buy
trade_direction_any(signal) == "buy"

\* lines 927-933 and 222-225: the order type a signal is traded with
trade_direction(signal) ==
    IF signal = "BUY" THEN "buy"
    ELSE IF signal = "SELL" THEN "sell"
    ELSE "none"

\* run_simple_strategy (lines 895-938, floor 0) and one symbol of the loop of
\* _process_real_time_signals (lines 207-228, floor 70), on thread t: rates
\* is what get_rates gave; without bars nothing follows, with bars the
\* current strategy decides on its frame and a BUY or SELL stronger than the
\* floor goes to _execute_trade. A thread that has traded asks no more.
signal_to_trade(t, path, floor) ==
    LET dispatch(name, frame, rates, decision) ==
            /\ strategy' = [name |-> name, frame |-> frame, decision |-> decision,
                            rates |-> rates, thread |-> t]
            /\ IF trade_direction(decision.signal) # "none"
                  /\ (floor = 0 \/ decision.strength > floor)
               THEN execute_trade(t, path, trade_direction(decision.signal),
                                  decision.strength)
               ELSE /\ UNCHANGED <<trade, settings, monitor>>
                    /\ UNCHANGED thrVars
                    /\ UNCHANGED envVars
    IN  /\ pc[t] = "idle"
        /\ trade[t] = NoTrade
        /\ \E rates \in {"None", "empty", "bars"}, name \in DOMAIN signal_frames :
              \E frame \in IF rates = "bars" THEN signal_frames[name]
                           ELSE {NoStrategy.frame} :
                  dispatch(name, frame, rates,
                           IF rates = "bars" THEN generate_signal(name, frame)
                           ELSE Decision("none", 0))

\* run_simple_strategy called on the caller's thread
RunStrategy(t) == signal_to_trade(t, "strategy", 0)

\* _on_market_update (lines 191-205) called by the monitor's worker with
\* AUTO_TRADING_ENABLED set
ProcessRealTimeSignals(t) ==
    /\ monitor.thread = "alive"
    /\ settings.AUTO_TRADING_ENABLED
    /\ signal_to_trade(t, "monitor", 70)

\* the collaborators of send_order answer every read; the broker accepts or
\* refuses for lack of money
NextFlow ==
    \/ RunStrategy("caller")
    \/ ProcessRealTimeSignals("worker")
    \/ \E t \in Threads :
          Attempt(t, {e \in SendEnvs : e.conn /\ e.info1 = "ok" /\ e.tickA = "ok"
                                       /\ e.tickB = "ok" /\ e.info2 = "ok"
                                       /\ e.info3 = "ok"},
                  CloseEnvs)
    \/ \E t \in Threads :
          OrderReply(t, {"TRADE_RETCODE_DONE", "TRADE_RETCODE_NO_MONEY"})
    \/ \E t \in Threads : Sleep(t)

SpecFlow == InitTrade /\ [][NextFlow]_vars

\* C17: each of the five variants answers HOLD with strength 0 for a frame
\* with fewer bars than its minimum (50 for simple_ma, bollinger and advanced,
\* 30 for rsi, 35 for macd), whatever the frame holds, a frame without the
\* indicator columns included
C17_ShortFrameHolds ==
    LET minimum == [simple_ma |-> 50, rsi |-> 30, macd |-> 35,
                    bollinger |-> 50, advanced |-> 50]
    IN  (strategy.name # "none" /\ strategy.frame.bars < minimum[strategy.name])
            => strategy.decision = Decision("HOLD", 0)

\* a frame one bar short whose last row gives BUY once the bar is there
C17_Witness ==
    /\ strategy.name = "simple_ma"
    /\ strategy.frame.bars = 49
    /\ strategy.frame.columns
    /\ generate_signal("simple_ma", [strategy.frame EXCEPT !.bars = 50]).signal = "BUY"
    /\ strategy.decision = Decision("HOLD", 0)


\* C18: the rsi, macd and bollinger variants answer BUY only when the BUY
\* score is at least 60 and above the SELL score, SELL only when the SELL
\* score is at least 60 and above the BUY score, and HOLD in every other
\* case, equal scores included
C18_FloorAndMajority ==
    LET latest == strategy.frame.latest
        buy == strength(strategy.name, latest)
        sell == sell_strength(strategy.name, latest)
        evaluated == /\ strategy.frame.bars >= min_bars(strategy.name)
                     /\ strategy.frame.columns
    IN  strategy.name \in {"rsi", "macd", "bollinger"} =>
            /\ strategy.decision.signal \in {"BUY", "SELL", "HOLD"}
            /\ strategy.decision.signal = "BUY" =>
                   evaluated /\ buy >= 60 /\ buy > sell
            /\ strategy.decision.signal = "SELL" =>
                   evaluated /\ sell >= 60 /\ sell > buy
            /\ (evaluated /\ buy = sell) => strategy.decision.signal = "HOLD"

\* a BUY of the rsi variant against some evidence for SELL
C18_Witness ==
    /\ strategy.name = "rsi"
    /\ strategy.decision.signal = "BUY"
    /\ strength("rsi", strategy.frame.latest) >= 60
    /\ sell_strength("rsi", strategy.frame.latest) > 0

\* C19: when the short average has crossed above the long one on the latest
\* bar (previous short <= previous long, latest short > latest long), RSI is
\* 50 and MACD is above its signal line, the simple_ma variant answers BUY
\* with a strength of at least 60, for every volume ratio, ADX, ATR ratio and
\* position against the middle of the price channel
C19_CrossoverBuys ==
    LET latest == strategy.frame.latest
    IN  (/\ strategy.name = "simple_ma"
         /\ strategy.frame.bars >= 50
         /\ strategy.frame.columns
         /\ latest.previous_sma_20 <= latest.previous_sma_50
         /\ latest.sma_20 > latest.sma_50
         /\ latest.rsi = 50
         /\ latest.macd > latest.macd_signal)
            => /\ strategy.decision.signal = "BUY"
               /\ strategy.decision.strength >= 60

\* C20: the simple_ma variant answers BUY or SELL only with the matching
\* crossover of the averages on the latest bar, only with RSI strictly
\* between 30 and 70, and only with MACD on the side of the trade: above its
\* signal line for BUY, below it for SELL
C20_GatedByCrossoverRsiMacd ==
    LET latest == strategy.frame.latest
        rsi_ok == 30 < latest.rsi /\ latest.rsi < 70
    IN  strategy.name = "simple_ma" =>
            /\ strategy.decision.signal = "BUY" =>
                   /\ latest.previous_sma_20 <= latest.previous_sma_50
                   /\ latest.sma_20 > latest.sma_50
                   /\ rsi_ok
                   /\ latest.macd > latest.macd_signal
            /\ strategy.decision.signal = "SELL" =>
                   /\ latest.previous_sma_20 >= latest.previous_sma_50
                   /\ latest.sma_20 < latest.sma_50
                   /\ rsi_ok
                   /\ latest.macd < latest.macd_signal


\* C21: in the composite strategy every component score lies in [-1, +1] and
\* the weights sum to 1, so the weighted total lies in [-1, +1]; the decision
\* is BUY exactly when the total exceeds +0.3, SELL exactly when it is below
\* -0.3 and HOLD with strength 0 otherwise, and the strength of a BUY or SELL
\* is the excess of |total| over 0.3 times 100 / 0.7, truncated to an
\* integer and capped at 95. The total is in thousandths here.
C21_TotalToDecision ==
    (/\ strategy.name = "advanced"
     /\ strategy.frame.bars >= 50
     /\ strategy.frame.columns)
        => LET c == components(strategy.frame.latest)
               names == DOMAIN weights
               RECURSIVE sum(_, _)
               sum(f, rest) ==
                   IF rest = {} THEN 0
                   ELSE LET n == CHOOSE n \in rest : TRUE
                        IN  f[n] + sum(f, rest \ {n})
               total == sum([n \in names |-> c[n] * weights[n]], names)
               scaled == ((Abs(total) - 300) * 100) \div 700
           IN  /\ \A n \in names : c[n] \in (0 - 10)..10
               /\ sum(weights, names) = 100
               /\ total \in (0 - 1000)..1000
               /\ strategy.decision =
                      IF total > 300 THEN Decision("BUY", Min(scaled, 95))
                      ELSE IF total < 0 - 300 THEN Decision("SELL", Min(scaled, 95))
                      ELSE Decision("HOLD", 0)


\* C22: for each of the five strategies and every frame, frames on which the
\* evaluation faults included, generate_signal returns a decision whose
\* direction is BUY, SELL or HOLD and whose strength lies in [0, 100], and
\* every HOLD decision has strength 0.
C22_DecisionWellFormed ==
    strategy.name # "none"
        => /\ strategy.decision.signal \in {"BUY", "SELL", "HOLD"}
           /\ strategy.decision.strength \in 0..100
           /\ strategy.decision.signal = "HOLD" => strategy.decision.strength = 0

\* the macd strategy asked on a long enough frame that lacks a column it
\* reads: the fault is answered with HOLD and strength 0
C22_Witness ==
    /\ strategy.name = "macd"
    /\ strategy.frame.bars >= 35
    /\ ~strategy.frame.columns
    /\ strategy.decision = Decision("HOLD", 0)


\* C30: every BUY or SELL decision a strategy returns carries a strictly
\* positive strength, so _execute_trade scales the configured risk percent by
\* strength / 100 and does not fall back to the unscaled base risk.
C30_TradeSignalScalesRisk ==
    strategy.decision.signal \in {"BUY", "SELL"}
        => /\ strategy.decision.strength > 0
           /\ adjusted_risk(strategy.decision.strength)
                  = (RISK_PERCENT * strategy.decision.strength) \div 100


\* C25: the MACD strategy scores BUY and SELL symmetrically: the bearish
\* mirror of an input that yields BUY (every MACD column negated, RSI and
\* Stochastic reflected about 50, volume and ATR kept) yields SELL with the
\* same strength.
C25_MirrorOfBuySells ==
    (strategy.name = "macd" /\ strategy.decision.signal = "BUY")
        => LET l == strategy.frame.latest
               mirror == [l EXCEPT !.macd = 0 - l.macd,
                                   !.macd_signal = 0 - l.macd_signal,
                                   !.previous_macd = 0 - l.previous_macd,
                                   !.previous_macd_signal = 0 - l.previous_macd_signal,
                                   !.macd_histogram = 0 - l.macd_histogram,
                                   !.previous_macd_histogram = 0 - l.previous_macd_histogram,
                                   !.macd_6_13 = 0 - l.macd_6_13,
                                   !.macd_signal_6_13 = 0 - l.macd_signal_6_13,
                                   !.rsi = 100 - l.rsi,
                                   !.stoch_k = 100 - l.stoch_k]
           IN  generate_signal("macd", [strategy.frame EXCEPT !.latest = mirror])
                   = Decision("SELL", strategy.decision.strength)


\* C28: within one send_order call, once the broker has accepted a
\* submission (return code done or done-partially), that call issues no
\* further submission, so one call creates at most one order at the broker.
C28_NoSubmissionAfterAccepted ==
    \A t \in Threads :
        (call[t].op = "send_order" /\ hist[t].accepted) => pc[t] # "inflight"


\* C29: when send_order is called with a stop-loss distance > 0 (a
\* take-profit distance > 0), every request passed to the broker carries a
\* non-zero stop-loss (take-profit) level on the protective side of the entry
\* price, also when the level computation failed or its instrument lookup
\* returned nothing.
C29_SubmittedWithProtection ==
    \A t \in Threads :
        Submitted(t) =>
            LET req == last[t].request
                c == call[t]
                sideSL == IF c.order_type = "buy" THEN -1 ELSE 1
            IN  /\ c.stop_loss_pips > 0 =>
                       req.sl # 0 /\ OnSide(req, req.sl, sideSL)
                /\ c.take_profit_pips > 0 =>
                       req.tp # 0 /\ OnSide(req, req.tp, 0 - sideSL)


\* C24: on the manual path and on the monitor's path an order reaches the
\* broker only as the consequence of a BUY or SELL decision: send_order is
\* called only by the thread whose strategy has just decided BUY or SELL on
\* bars that were there, with a usable volume and with the decision's
\* direction, and every request it submits has that direction; a HOLD
\* decision, missing bars or an unusable volume lead to no send_order call.
C24_OrdersFollowDecisions ==
    [][\A t \in Threads :
          /\ (pc[t] = "idle" /\ pc'[t] = "attempt") =>
                /\ strategy'.thread = t
                /\ strategy'.rates = "bars"
                /\ strategy'.decision.signal \in {"BUY", "SELL"}
                /\ call'[t].op = "send_order"
                /\ call'[t].order_type =
                       (IF strategy'.decision.signal = "BUY" THEN "buy" ELSE "sell")
                /\ trade'[t].sized.kind = "volume"
                /\ trade'[t].sized.volume > 0
          /\ (pc[t] # "inflight" /\ pc'[t] = "inflight") =>
                last'[t].request.type = call[t].order_type]_vars

\* the monitor's worker has submitted a sell order after its strategy decided
\* SELL with a strength above 70
C24_Witness ==
    /\ strategy.name # "none"
    /\ strategy.thread = "worker"
    /\ strategy.decision.signal = "SELL"
    /\ strategy.decision.strength > 70
    /\ trade["worker"].path = "monitor"
    /\ Submitted("worker")
    /\ last["worker"].request.type = "sell"


(***************************************************************************)
(* Parabolic SAR: TradingStrategy._calculate_parabolic_sar (strategies.py  *)
(* 190-249) and DataFetcher._calculate_psar (data.py 464-520).  A price is *)
(* a whole number of 0.0001 below 4; the scans work on the doubles of the  *)
(* prices, in units of 2^-58 as above.                                     *)
(***************************************************************************)
\* af_start, af_increment and af_max: the defaults 0.02, 0.02 and 0.2
af_start == DoubleOf(200)
af_increment == DoubleOf(200)
af_max == DoubleOf(2000)

\* af + af_increment with the cap at twice af_max
accelerate_twice_max(af) ==
    LET capped(sum) == IF BigLess(sum, DoubleOf(4000)) THEN sum ELSE DoubleOf(4000)
    IN  capped(DoubleAdd(af, af_increment))

\* min(af + af_increment, af_max) (strategies.py 224 and 238, data.py 493
\* and 506)
accelerate(af) ==
    LET capped(sum) == IF BigLess(sum, af_max) THEN sum ELSE af_max
    IN  capped(DoubleAdd(af, af_increment))

\* psar + af * (ep - psar) in double arithmetic (strategies.py 211; data.py
\* 482, and 495 where both signs are turned).  The difference d of two
\* prices is exact; |d| is brought into [1, 2) by doubling it shifts times,
\* the product of af by it is rounded there, which rounds af * |d| itself,
\* and is halved shifts times again into a whole number of units, the bit
\* below the units and a flag for any bits below that one; the sum is
\* rounded from these.
projected_sar(psar, af, ep) ==
    LET one == Big(LimbBase, 0)
        two == Big(2 * LimbBase, 0)
        Halved(x) == Big(x.hi \div 2, x.lo \div 2 + (x.hi % 2) * (LimbBase \div 2))
        RECURSIVE Normalised(_)
        Normalised(n) ==
            IF BigLess(n.x, one)
            THEN Normalised([x |-> BigAdd(n.x, n.x), shifts |-> n.shifts + 1])
            ELSE n
        start(m) == IF BigLess(m, two) THEN [x |-> m, shifts |-> 0]
                    ELSE [x |-> Halved(m), shifts |-> 0 - 1]
        RECURSIVE Shifted(_)
        Shifted(q) ==
            IF q.shifts = 0 THEN q
            ELSE IF q.shifts < 0
            THEN Shifted([x |-> BigAdd(q.x, q.x), half |-> FALSE, sticky |-> FALSE,
                          shifts |-> q.shifts + 1])
            ELSE Shifted([x |-> Halved(q.x), half |-> q.x.lo % 2 = 1,
                          sticky |-> q.sticky \/ q.half, shifts |-> q.shifts - 1])
        product(n) ==
            Shifted([x |-> DoubleTimesPositive(af, n.x), half |-> FALSE,
                     sticky |-> FALSE, shifts |-> n.shifts])
        quarters(q) == IF q.half THEN (IF q.sticky THEN 3 ELSE 2)
                       ELSE IF q.sticky THEN 1 ELSE 0
        sum(q, r, negative) ==
            IF ~negative THEN RoundToDouble(BigAdd(psar, q.x), r, 4)
            ELSE IF r = 0 THEN RoundToDouble(BigAdd(psar, BigNeg(q.x)), 0, 4)
            ELSE RoundToDouble(BigAdd(psar, BigNeg(BigAdd(q.x, Big(0, 1)))), 4 - r, 4)
        added(q, negative) == sum(q, quarters(q), negative)
        from(d) ==
            IF d = BigZero THEN psar
            ELSE IF d.hi < 0 THEN added(product(Normalised(start(BigNeg(d)))), TRUE)
            ELSE added(product(Normalised(start(d))), FALSE)
    IN  from(DoubleAdd(ep, BigNeg(psar)))

\* strategies.py 190-249: the rows of psar, trend, ep and af of a frame; an
\* empty frame raises at close[0] and gets no columns.  psar_step is one pass
\* of the loop (209-241), from the row of index i - 1, the bar of index i - 1
\* and the bar of index i.
calculate_parabolic_sar(rows) ==
    LET Highest(a, b) == IF BigLess(a, b) THEN b ELSE a
        Lowest(a, b) == IF BigLess(b, a) THEN b ELSE a
        psar_step(prev, previous_bar, bar) ==
            LET high == DoubleOf(bar.high)
                low == DoubleOf(bar.low)
                pass(projected) ==
                    IF prev.trend = 1
                    THEN IF BigLess(low, projected)
                         THEN [psar |-> Highest(DoubleOf(previous_bar.high), high),
                               trend |-> 0 - 1, ep |-> low, af |-> af_start]
                         ELSE IF BigLess(prev.ep, high)
                         THEN [psar |-> projected, trend |-> 1, ep |-> high,
                               af |-> accelerate(prev.af)]
                         ELSE [psar |-> projected, trend |-> 1, ep |-> prev.ep,
                               af |-> prev.af]
                    ELSE IF BigLess(projected, high)
                         THEN [psar |-> Lowest(DoubleOf(previous_bar.low), low),
                               trend |-> 1, ep |-> high, af |-> af_start]
                         ELSE IF BigLess(low, prev.ep)
                         THEN [psar |-> projected, trend |-> 0 - 1, ep |-> low,
                               af |-> accelerate(prev.af)]
                         ELSE [psar |-> projected, trend |-> 0 - 1, ep |-> prev.ep,
                               af |-> prev.af]
            IN  pass(projected_sar(prev.psar, prev.af, prev.ep))
        RECURSIVE scan(_)
        scan(acc) ==
            IF Len(acc.out) >= Len(rows) THEN acc.out
            ELSE scan([out |-> Append(acc.out,
                           psar_step(acc.out[Len(acc.out)],
                                     rows[Len(acc.out)], rows[Len(acc.out) + 1]))])
    IN  IF rows = <<>> THEN <<>>
        ELSE scan([out |-> <<[psar |-> DoubleOf(rows[1].close), trend |-> 1,
                              ep |-> DoubleOf(rows[1].high), af |-> af_start]>>])

\* the NaN of np.nan
NaN == [nan |-> TRUE]

\* data.py 464-520: the psar column of a frame.  close[1] raises on a frame
\* of fewer than two bars and the except branch answers a column of NaN;
\* otherwise the first two values stay at the 0.0 of np.zeros, and so does
\* trend[1], which sends the first pass into the else branch.
calculate_psar(rows) ==
    LET Highest(a, b) == IF BigLess(a, b) THEN b ELSE a
        Lowest(a, b) == IF BigLess(b, a) THEN b ELSE a
        first == rows[1]
        falling == first.close > rows[2].close
        pass(s, i, sar) ==
            LET high == DoubleOf(rows[i].high)
                low == DoubleOf(rows[i].low)
                kept(t) ==
                    IF t.reverse THEN t
                    ELSE IF t.trend = 1
                    THEN [t EXCEPT !.sar = Lowest(Lowest(t.sar, DoubleOf(rows[i - 1].low)),
                                                  DoubleOf(rows[i - 2].low))]
                    ELSE [t EXCEPT !.sar = Highest(Highest(t.sar, DoubleOf(rows[i - 1].high)),
                                                   DoubleOf(rows[i - 2].high))]
                stored(t) == [t EXCEPT !.out = Append(s.out, t.sar)]
            IN  stored(kept(
                  IF s.trend = 1
                  THEN IF BigLess(low, sar)
                       THEN [s EXCEPT !.trend = 0 - 1, !.sar = s.ep, !.af = af_start,
                                      !.ep = low, !.reverse = TRUE]
                       ELSE IF BigLess(s.ep, high)
                       THEN [s EXCEPT !.trend = 1, !.sar = sar, !.ep = high,
                                      !.af = accelerate(s.af), !.reverse = FALSE]
                       ELSE [s EXCEPT !.trend = 1, !.sar = sar, !.reverse = FALSE]
                  ELSE IF BigLess(sar, high)
                       THEN [s EXCEPT !.trend = 1, !.sar = s.ep, !.af = af_start,
                                      !.ep = high, !.reverse = TRUE]
                       ELSE IF BigLess(low, s.ep)
                       THEN [s EXCEPT !.trend = 0 - 1, !.sar = sar, !.ep = low,
                                      !.af = accelerate(s.af), !.reverse = FALSE]
                       ELSE [s EXCEPT !.trend = 0 - 1, !.sar = sar, !.reverse = FALSE]))
        RECURSIVE scan(_)
        scan(s) ==
            IF Len(s.out) >= Len(rows) THEN s.out
            ELSE scan(pass(s, Len(s.out) + 1, projected_sar(s.sar, s.af, s.ep)))
    IN  IF Len(rows) < 2 THEN [i \in 1 .. Len(rows) |-> NaN]
        ELSE scan([out |-> <<BigZero, BigZero>>, trend |-> 0, af |-> af_start,
                   ep |-> DoubleOf(IF falling THEN first.low ELSE first.high),
                   sar |-> DoubleOf(IF falling THEN first.high ELSE first.low),
                   reverse |-> FALSE])

(***************************************************************************)
(* SpecIndicators: the indicators of the frames of a market.  A market is  *)
(* a pattern of three moves of the price, repeated, and the size of a move *)
(* in units of 0.0001: "U" up, "V" up by two sizes, "D" down, "S" the same *)
(* bar again.  ScanFrame lets the frame grow bar by bar and runs both      *)
(* Parabolic SAR scans anew on every frame, as calculate_indicators        *)
(* (strategies.py 54-72) and calculate_technical_indicators (data.py       *)
(* 263-289) do; CompositeSignal takes the 60 bars of a rising market       *)
(* through calculate_indicators and generate_signal of                     *)
(* AdvancedMultiStrategy.                                                  *)
(***************************************************************************)
MaxBars == 13

Markets == [pattern : [1 .. 3 -> {"U", "V", "D", "S"}], step : {10, 30}]

\* the bars the market has made after n moves: the first bar lies around
\* 1.1000, each bar reaches 0.0008 above and below its close
market_rows(market, n) ==
    LET move(i) == CASE market.pattern[((i - 1) % 3) + 1] = "U" -> market.step
                     [] market.pattern[((i - 1) % 3) + 1] = "V" -> 2 * market.step
                     [] market.pattern[((i - 1) % 3) + 1] = "D" -> 0 - market.step
                     [] OTHER -> 0
        RECURSIVE bars(_)
        bars(made) ==
            IF Len(made.rows) >= n THEN made.rows
            ELSE bars([rows |-> Append(made.rows,
                                    [high |-> made.close + 8, low |-> made.close - 8,
                                     close |-> made.close]),
                       close |-> made.close + move(Len(made.rows) + 1)])
    IN  bars([rows |-> <<>>, close |-> 11000])

ScanFrame ==
    /\ strategy.name \in {"none", "psar"}
    /\ strategy.frame.bars < MaxBars
    /\ \E market \in IF strategy.name = "none" THEN Markets
                     ELSE {strategy.frame.market} :
          \E rows \in {market_rows(market, strategy.frame.bars + 1)} :
              strategy' = [name |-> "psar",
                           frame |-> [bars |-> Len(rows), market |-> market,
                                      rows |-> rows,
                                      scan |-> calculate_parabolic_sar(rows),
                                      psar |-> calculate_psar(rows)],
                           decision |-> Decision("HOLD", 0)]
    /\ UNCHANGED <<trade, settings, monitor>>
    /\ UNCHANGED envVars
    /\ UNCHANGED thrVars

\* The last row of the frame that calculate_indicators (strategies.py 54-72)
\* makes of at least 50 bars, as AdvancedMultiStrategy.generate_signal reads
\* it.  The columns that are rolling sums, extremes and quotients of them
\* are computed from the bars, in whole numbers: rsi (79-83), the Bollinger
\* bands (119-124; close and bands in units of 0.00001, twice the deviation
\* from the whole square root, bb_position in hundredths), stoch_k and
\* stoch_d (127-130, in whole percent), the comparisons of the averages in
\* trend_composite (829-834), volatility_index (837, from atr 94-98, in
\* hundredths).  The columns that are exponential
\* averages (macd, macd_signal, adx) and volume_ratio, which depends on the
\* tick volumes, are not computed: free gives them.  psar_trend is the last
\* trend of the scan.
calculate_indicators(rows, psar_trend, free) ==
    LET n == Len(rows)
        close(i) == rows[i].close
        RECURSIVE total(_)
        total(s) == IF s = <<>> THEN 0 ELSE Head(s) + total(Tail(s))
        RECURSIVE root(_)
        root(r) == IF r.high - r.low <= 1 THEN r.low
                   ELSE IF ((r.low + r.high) \div 2) * ((r.low + r.high) \div 2) <= r.x
                   THEN root([r EXCEPT !.low = (r.low + r.high) \div 2])
                   ELSE root([r EXCEPT !.high = (r.low + r.high) \div 2])
        \* rsi: the means of the rises and of the falls of the last 14 changes;
        \* without a fall gain / loss is inf and 100 / (1 + inf) is 0
        gain == total([i \in 1 .. 14 |-> Max(close(n - 14 + i) - close(n - 15 + i), 0)])
        loss == total([i \in 1 .. 14 |-> Max(close(n - 15 + i) - close(n - 14 + i), 0)])
        \* Bollinger: the last 20 closes, counted from the first of them
        first == close(n - 19)
        sum_20 == total([i \in 1 .. 20 |-> close(n - 20 + i) - first])
        squares_20 == total([i \in 1 .. 20 |->
                          (close(n - 20 + i) - first) * (close(n - 20 + i) - first)])
        twice_std == root([x |-> ((20 * squares_20 - sum_20 * sum_20) * 20) \div 19,
                           low |-> 0, high |-> 46340])
        bb_middle == 10 * first + sum_20 \div 2
        \* Stochastic at the bar i
        low_14(i) == CHOOSE l \in {rows[j].low : j \in i - 13 .. i} :
                        \A j \in i - 13 .. i : l <= rows[j].low
        high_14(i) == CHOOSE h \in {rows[j].high : j \in i - 13 .. i} :
                         \A j \in i - 13 .. i : h >= rows[j].high
        stoch_k(i) == (100 * (close(i) - low_14(i))) \div (high_14(i) - low_14(i))
        \* atr: the mean of the last 14 true ranges
        true_range(i) == Max(rows[i].high - rows[i].low,
                             Max(Abs(rows[i].high - close(i - 1)),
                                 Abs(rows[i].low - close(i - 1))))
        ranges == total([i \in 1 .. 14 |-> true_range(n - 14 + i)])
        sum_50 == total([i \in 1 .. 50 |-> close(n - 50 + i)])
    IN  [rsi |-> IF loss = 0 THEN 100 ELSE (100 * gain) \div (gain + loss),
         macd |-> free.macd, macd_signal |-> 0,
         previous_macd |-> free.previous_macd, previous_macd_signal |-> 0,
         close |-> 10 * close(n),
         bb_lower |-> bb_middle - twice_std,
         bb_upper |-> bb_middle + twice_std,
         bb_position |-> (100 * (10 * close(n) - bb_middle + twice_std))
                             \div (2 * twice_std),
         stoch_k |-> stoch_k(n),
         stoch_d |-> (stoch_k(n) + stoch_k(n - 1) + stoch_k(n - 2)) \div 3,
         trend_composite |->
             (IF 20 * close(n) > 20 * first + sum_20 THEN 1 ELSE 0)
             + (IF 50 * (20 * first + sum_20) > 20 * sum_50 THEN 1 ELSE 0)
             + (IF free.macd > 0 THEN 1 ELSE 0)
             + (IF free.adx > 25 THEN 1 ELSE 0),
         adx |-> free.adx,
         psar_trend |-> psar_trend,
         volume_ratio |-> free.volume_ratio,
         volatility_index |-> (10000 * ranges) \div (14 * close(n))]

\* strong_factors (strategies.py 979-983): the components whose score is
\* above 0.7 in size, each with its side
strong_factors(c) ==
    {<<indicator, IF c[indicator] > 0 THEN "bullish" ELSE "bearish">> :
        indicator \in {i \in DOMAIN c : Abs(c[i]) > 7}}

CompositeSignal ==
    /\ strategy.name = "none"
    /\ \E market \in {m \in Markets : \A i \in 1 .. 3 : m.pattern[i] \in {"U", "V"}} :
          \E rows \in {market_rows(market, 60)} :
              \E psar_trend \in {calculate_parabolic_sar(rows)[Len(rows)].trend},
                 free \in [macd : {0 - 1, 1}, previous_macd : {0 - 1, 1},
                           adx : {20, 30}, volume_ratio : {100, 130, 160}] :
                  \E latest \in {calculate_indicators(rows, psar_trend, free)} :
                      \E c \in {components(latest)} :
                          strategy' =
                              [name |-> "advanced",
                               frame |-> [bars |-> Len(rows), columns |-> TRUE,
                                          market |-> market, latest |-> latest],
                               decision |-> generate_signal("advanced",
                                                [bars |-> Len(rows), columns |-> TRUE,
                                                 latest |-> latest]),
                               factors |-> strong_factors(c)]
    /\ UNCHANGED <<trade, settings, monitor>>
    /\ UNCHANGED envVars
    /\ UNCHANGED thrVars

NextIndicators ==
    \/ ScanFrame
    \/ CompositeSignal

SpecIndicators == InitMonitor /\ [][NextIndicators]_vars

\* C27: at every index after the first of the scan of strategies.py the trend
\* is +1 or -1 and differs from the one before exactly when the bar's low
\* lies below the projected SAR in an up-trend, or its high above it in a
\* down-trend; on such a flip the acceleration factor is the start value and
\* the extreme point the new bar's low (after a flip down) or high (after a
\* flip up); without a flip the acceleration factor is min(af + increment,
\* maximum) when the bar made a new extreme, which then is the extreme point,
\* and both are unchanged otherwise; the factor is never below its start value
\* nor above its maximum.  The first row is an up-trend with the start value.
C27_ForwardScan ==
    strategy.name = "psar" =>
        LET scan == strategy.frame.scan
            rows == strategy.frame.rows
            follows(prev, row, extreme, penetrated, new_extreme, grown) ==
                /\ row.trend \in {1, 0 - 1}
                /\ (row.trend # prev.trend) <=> penetrated
                /\ penetrated =>
                      /\ row.af = af_start
                      /\ row.ep = extreme
                /\ (~penetrated /\ new_extreme) =>
                      /\ row.af = IF BigLess(af_max, grown) THEN af_max ELSE grown
                      /\ row.ep = extreme
                /\ (~penetrated /\ ~new_extreme) =>
                      /\ row.af = prev.af
                      /\ row.ep = prev.ep
                /\ ~BigLess(row.af, af_start)
                /\ ~BigLess(af_max, row.af)
            step(prev, row, high, low, projected) ==
                follows(prev, row,
                        IF row.trend = 1 THEN high ELSE low,
                        IF prev.trend = 1 THEN BigLess(low, projected)
                        ELSE BigLess(projected, high),
                        IF prev.trend = 1 THEN BigLess(prev.ep, high)
                        ELSE BigLess(low, prev.ep),
                        DoubleAdd(prev.af, af_increment))
        IN  /\ scan[1].trend = 1
            /\ scan[1].af = af_start
            /\ \A i \in 2 .. Len(scan) :
                  step(scan[i - 1], scan[i], DoubleOf(rows[i].high),
                       DoubleOf(rows[i].low),
                       projected_sar(scan[i - 1].psar, scan[i - 1].af, scan[i - 1].ep))

\* a frame of 12 bars whose scan flipped to a down-trend at the second bar,
\* restarted the acceleration factor there, made a new low with every bar
\* after it and has reached the maximum factor at the last bar, one step
\* after a factor just below the maximum
C27_Witness ==
    /\ strategy.name = "psar"
    /\ strategy.frame.bars = 12
    /\ strategy.frame.scan[1].trend = 1
    /\ strategy.frame.scan[2].trend = 0 - 1
    /\ strategy.frame.scan[2].af = af_start
    /\ \A i \in 3 .. 12 : /\ strategy.frame.scan[i].trend = 0 - 1
                          /\ BigLess(strategy.frame.scan[i - 1].af, strategy.frame.scan[i].af)
    /\ BigLess(strategy.frame.scan[11].af, af_max)
    /\ strategy.frame.scan[12].af = af_max

\* C23: when a frame is calculated again with one more bar, the psar and
\* psar_trend columns of strategies.py and the psar column of data.py keep,
\* at every index of the shorter frame, the value they had there.
C23_AppendingKeepsValues ==
    [][(strategy.name = "psar" /\ strategy'.name = "psar") =>
          \A i \in 1 .. strategy.frame.bars :
              /\ strategy'.frame.scan[i].psar = strategy.frame.scan[i].psar
              /\ strategy'.frame.scan[i].trend = strategy.frame.scan[i].trend
              /\ strategy'.frame.psar[i] = strategy.frame.psar[i]]_vars

\* C26: the decision that the composite strategy makes of the 60 bars of a
\* steadily rising series is BUY with a strength above 0, and the key factors
\* of its description name the trend component as bullish and a momentum
\* component (RSI, Stochastic or MACD) as bullish.
C26_RisingSeriesBuys ==
    strategy.name = "advanced" =>
        /\ strategy.frame.bars = 60
        /\ strategy.decision.signal = "BUY"
        /\ strategy.decision.strength > 0
        /\ <<"trend", "bullish">> \in strategy.factors
        /\ \E momentum \in {"rsi", "stoch", "macd"} :
              <<momentum, "bullish">> \in strategy.factors

=============================================================================
